---- MODULE Spec2Model ----
(***************************************************************************)
(* Model of the Bestia tracker's session ledger (src/src/storage.ts).      *)
(*                                                                         *)
(* Money amounts are JavaScript numbers, i.e. IEEE-754 binary64 values.    *)
(* The ledger adds, negates, multiplies and divides them and compares the  *)
(* results with 0, so the model carries them as binary64 values with the   *)
(* rounding of the real operations (round to nearest, ties to even), and   *)
(* with NaN, the infinities and the signed zero.                           *)
(***************************************************************************)
EXTENDS Integers, Sequences, FiniteSets, TLC

(***************************************************************************)
(* Natural numbers of any size: little-endian sequences of limbs in        *)
(* 0..Base-1 without leading (high) zero limbs; <<>> is 0.  They hold the  *)
(* 53-bit significands and the exact intermediate results.                 *)
(***************************************************************************)
LimbBits == 15
Base == 32768

RECURSIVE BStrip(_)
BStrip(x) ==
  IF x = <<>> THEN x
  ELSE IF x[Len(x)] = 0 THEN BStrip(SubSeq(x, 1, Len(x) - 1)) ELSE x

RECURSIVE BAddC(_, _, _)
BAddC(x, y, c) ==
  IF x = <<>> /\ y = <<>> THEN (IF c = 0 THEN <<>> ELSE <<c>>)
  ELSE LET a == IF x = <<>> THEN 0 ELSE Head(x)
           b == IF y = <<>> THEN 0 ELSE Head(y)
           s == a + b + c
       IN  <<s % Base>> \o BAddC(IF x = <<>> THEN x ELSE Tail(x),
                                 IF y = <<>> THEN y ELSE Tail(y),
                                 s \div Base)

BAdd(x, y) == BAddC(x, y, 0)

\* x - y - c for x >= y + c, before the high zero limbs are removed
RECURSIVE BSubC(_, _, _)
BSubC(x, y, c) ==
  IF x = <<>> THEN <<>>
  ELSE LET b == IF y = <<>> THEN 0 ELSE Head(y)
           d == Head(x) - b - c
       IN  <<d % Base>> \o BSubC(Tail(x),
                                 IF y = <<>> THEN y ELSE Tail(y),
                                 IF d < 0 THEN 1 ELSE 0)

BSub(x, y) == BStrip(BSubC(x, y, 0))

\* -1, 0, 1 as x < y, x = y, x > y
RECURSIVE BCmpFrom(_, _, _)
BCmpFrom(x, y, i) ==
  IF i = 0 THEN 0
  ELSE IF x[i] < y[i] THEN -1
  ELSE IF x[i] > y[i] THEN 1
  ELSE BCmpFrom(x, y, i - 1)

BCmp(x, y) ==
  IF Len(x) < Len(y) THEN -1
  ELSE IF Len(x) > Len(y) THEN 1
  ELSE BCmpFrom(x, y, Len(x))

\* x * k + c for 0 <= k, c < Base
RECURSIVE BMulSmallC(_, _, _)
BMulSmallC(x, k, c) ==
  IF x = <<>> THEN (IF c = 0 THEN <<>> ELSE <<c>>)
  ELSE LET p == Head(x) * k + c
       IN  <<p % Base>> \o BMulSmallC(Tail(x), k, p \div Base)

BMulSmall(x, k) == IF k = 0 THEN <<>> ELSE BMulSmallC(x, k, 0)

\* x * Base
BShiftLimb(x) == IF x = <<>> THEN <<>> ELSE <<0>> \o x

RECURSIVE BMul(_, _)
BMul(x, y) ==
  IF x = <<>> \/ y = <<>> THEN <<>>
  ELSE BAdd(BMulSmall(x, Head(y)), BShiftLimb(BMul(x, Tail(y))))

\* quotient and remainder of x by d, 0 < d < Base, from the high limb down
RECURSIVE BDivSmallFrom(_, _, _, _, _)
BDivSmallFrom(x, d, i, r, acc) ==
  IF i = 0 THEN [q |-> acc, r |-> r]
  ELSE BDivSmallFrom(x, d, i - 1, (r * Base + x[i]) % d,
                     <<(r * Base + x[i]) \div d>> \o acc)

BDivSmall(x, d) ==
  LET res == BDivSmallFrom(x, d, Len(x), 0, <<>>)
  IN  [q |-> BStrip(res.q), r |-> res.r]

Zeros(n) == [i \in 1..n |-> 0]

\* x * 2^n
BShl(x, n) ==
  IF x = <<>> THEN <<>>
  ELSE Zeros(n \div LimbBits) \o BMulSmall(x, 2 ^ (n % LimbBits))

\* floor(x / 2^n)
BShr(x, n) ==
  LET q == n \div LimbBits
  IN  IF q >= Len(x) THEN <<>>
      ELSE BDivSmall(SubSeq(x, q + 1, Len(x)), 2 ^ (n % LimbBits)).q

RECURSIVE IntBitLen(_)
IntBitLen(k) == IF k = 0 THEN 0 ELSE 1 + IntBitLen(k \div 2)

BBitLen(x) ==
  IF x = <<>> THEN 0 ELSE (Len(x) - 1) * LimbBits + IntBitLen(x[Len(x)])

RECURSIVE IntTrailingZeros(_)
IntTrailingZeros(k) == IF k % 2 = 1 THEN 0 ELSE 1 + IntTrailingZeros(k \div 2)

\* number of trailing zero bits of x > 0
RECURSIVE BTrailingZeros(_)
BTrailingZeros(x) ==
  IF Head(x) = 0 THEN LimbBits + BTrailingZeros(Tail(x))
  ELSE IntTrailingZeros(Head(x))

BIsOdd(x) == x # <<>> /\ Head(x) % 2 = 1

RECURSIVE BFromInt(_)
BFromInt(k) == IF k = 0 THEN <<>> ELSE <<k % Base>> \o BFromInt(k \div Base)

(***************************************************************************)
(* JavaScript numbers.  A number is a record                               *)
(*   [k |-> "fin" | "inf" | "nan", s |-> sign bit, m |-> significand,      *)
(*    e |-> exponent]                                                      *)
(* that stands for (-1)^s * m * 2^e.  A finite non-zero number is kept     *)
(* with m odd, a zero with m = <<>> and e = 0, so that two records are     *)
(* equal exactly when they are the same binary64 value (+0 and -0 are      *)
(* different records, as they are different values).                       *)
(***************************************************************************)
Precision == 53
MinExp == 0 - 1074
MaxExp == 1024

NaN == [k |-> "nan", s |-> 0, m |-> <<>>, e |-> 0]
Inf(s) == [k |-> "inf", s |-> s, m |-> <<>>, e |-> 0]
Zero(s) == [k |-> "fin", s |-> s, m |-> <<>>, e |-> 0]

Canon(s, M, E) ==
  IF M = <<>> THEN Zero(s)
  ELSE LET tz == BTrailingZeros(M)
       IN  [k |-> "fin", s |-> s, m |-> BShr(M, tz), e |-> E + tz]

\* the binary64 value nearest to (-1)^s * M * 2^E, ties to even
RoundNearestEven(s, M, E) ==
  IF M = <<>> THEN Zero(s)
  ELSE LET L == BBitLen(M)
           q == IF E + L - Precision > MinExp THEN E + L - Precision ELSE MinExp
       IN  IF q <= E
           THEN (IF E + L > MaxExp THEN Inf(s) ELSE Canon(s, M, E))
           ELSE LET sh   == q - E
                    Q    == BShr(M, sh)
                    rem  == BSub(M, BShl(Q, sh))
                    half == BShl(<<1>>, sh - 1)
                    c    == BCmp(rem, half)
                    R    == IF c > 0 \/ (c = 0 /\ BIsOdd(Q)) THEN BAdd(Q, <<1>>) ELSE Q
                IN  IF R = <<>> THEN Zero(s)
                    ELSE IF q + BBitLen(R) > MaxExp THEN Inf(s)
                    ELSE Canon(s, R, q)

\* an integer of the program as a number
FromInt(n) ==
  IF n < 0 THEN Canon(1, BFromInt(0 - n), 0) ELSE Canon(0, BFromInt(n), 0)

IsNaN(a) == a.k = "nan"
IsZero(a) == a.k = "fin" /\ a.m = <<>>

\* unary minus
Neg(a) == IF IsNaN(a) THEN a ELSE [a EXCEPT !.s = 1 - a.s]

\* a + b, the exact sum brought to a number by Round
AddBy(a, b, Round(_, _, _)) ==
  IF IsNaN(a) \/ IsNaN(b) THEN NaN
  ELSE IF a.k = "inf" THEN (IF b.k = "inf" /\ b.s # a.s THEN NaN ELSE a)
  ELSE IF b.k = "inf" THEN b
  ELSE IF IsZero(a) /\ IsZero(b) THEN Zero(IF a.s = 1 /\ b.s = 1 THEN 1 ELSE 0)
  ELSE IF IsZero(a) THEN b
  ELSE IF IsZero(b) THEN a
  ELSE LET emin == IF a.e < b.e THEN a.e ELSE b.e
           Ma   == BShl(a.m, a.e - emin)
           Mb   == BShl(b.m, b.e - emin)
           c    == BCmp(Ma, Mb)
       IN  IF a.s = b.s THEN Round(a.s, BAdd(Ma, Mb), emin)
           ELSE IF c = 0 THEN Zero(0)
           ELSE IF c > 0 THEN Round(a.s, BSub(Ma, Mb), emin)
           ELSE Round(b.s, BSub(Mb, Ma), emin)

\* a + b
Add(a, b) == AddBy(a, b, RoundNearestEven)

SignXor(a, b) == IF a.s = b.s THEN 0 ELSE 1

\* a * b
Mul(a, b) ==
  IF IsNaN(a) \/ IsNaN(b) THEN NaN
  ELSE IF a.k = "inf" \/ b.k = "inf"
       THEN (IF IsZero(a) \/ IsZero(b) THEN NaN ELSE Inf(SignXor(a, b)))
  ELSE RoundNearestEven(SignXor(a, b), BMul(a.m, b.m), a.e + b.e)

\* a / b.  The quotient of the significands is taken to more than 55 bits,
\* with one more bit that records a non-zero remainder, and then rounded.
\* The divisors of the ledger are sums of prese, whose odd part is far
\* below Base; a divisor with a longer significand has no case here.
DivShift == 75
Div(a, b) ==
  CASE IsNaN(a) \/ IsNaN(b) -> NaN
    [] ~IsNaN(a) /\ ~IsNaN(b) /\ a.k = "inf" ->
         IF b.k = "inf" THEN NaN ELSE Inf(SignXor(a, b))
    [] ~IsNaN(a) /\ a.k = "fin" /\ b.k = "inf" -> Zero(SignXor(a, b))
    [] a.k = "fin" /\ b.k = "fin" /\ IsZero(b) ->
         IF IsZero(a) THEN NaN ELSE Inf(SignXor(a, b))
    [] a.k = "fin" /\ b.k = "fin" /\ ~IsZero(b) /\ IsZero(a) -> Zero(SignXor(a, b))
    [] a.k = "fin" /\ b.k = "fin" /\ ~IsZero(a) /\ Len(b.m) = 1 ->
         LET qr == BDivSmall(BShl(a.m, DivShift), b.m[1])
             Q  == BAdd(BMulSmall(qr.q, 2), IF qr.r = 0 THEN <<>> ELSE <<1>>)
         IN  RoundNearestEven(SignXor(a, b), Q, a.e - b.e - DivShift - 1)

\* a === b
StrictEq(a, b) ==
  /\ ~IsNaN(a)
  /\ ~IsNaN(b)
  /\ (a = b \/ (IsZero(a) /\ IsZero(b)))

\* a || 0
OrZero(a) == IF IsNaN(a) \/ IsZero(a) THEN Zero(0) ELSE a

(***************************************************************************)
(* Optional values (undefined or a value) and insertion-ordered Maps       *)
(* (sequences of <<key, value>> entries, as Map.entries() lists them).     *)
(***************************************************************************)
None == <<>>
\* an event whose metadata is undefined
NoMetadata == [absent |-> TRUE]
Some(x) == <<x>>

MapHas(map, key) == \E i \in 1..Len(map) : map[i][1] = key

MapGet(map, key) == map[CHOOSE i \in 1..Len(map) : map[i][1] = key][2]

MapSet(map, key, value) ==
  IF MapHas(map, key)
  THEN [i \in 1..Len(map) |-> IF map[i][1] = key THEN <<key, value>> ELSE map[i]]
  ELSE Append(map, <<key, value>>)

\* payouts.get(playerId) || 0
GetOrZero(map, key) == IF MapHas(map, key) THEN OrZero(MapGet(map, key)) ELSE Zero(0)

(***************************************************************************)
(* The session (types.ts) and the state of the program.                    *)
(***************************************************************************)
VARIABLES
  session,   \* the GameSession the application holds
  stored,    \* localStorage[STORAGE_KEY]: None, or Some(the JSON written last)
  saves,     \* number of localStorage.setItem calls so far
  now,       \* the value Date.now() returns next
  nextId,    \* stands for the identifier Math.random() yields next
  last,      \* the last call: its name, its arguments and the session before it
  budget,    \* the number of calls the explored run may make
  storage,   \* "ok", or "throws" when every localStorage call throws
  other,     \* the session a second tab holds: None while there is no such tab
  hasSession,           \* FALSE while this.session of the app is null
  currentRoute,         \* BestiaApp.currentRoute
  location,             \* window.location.hash and whether a hashchange event waits
  reviewingRoundResult, \* BestiaApp.reviewingRoundResult, None for null
  reviewingResult,      \* the reviewingResult property of game-actions
  modal,                \* the fields of the share-game-modal component
  inflight              \* the promises the modal awaits: fetches and QR codes

\* the state of the pages around the ledger
ui == <<hasSession, currentRoute, location, reviewingRoundResult, reviewingResult,
        modal, inflight>>

vars == <<session, stored, saves, now, nextId, last, budget, storage, other, ui>>

\* rosters and inputs of the explored runs
PlayerNames == <<"P1", "P2", "P3">>
UnknownId == "PX"
MaxCalls == 2
TotalPrese == 3

\* the default ante of createNewSession, 0.3
DefaultPiatto == Div(FromInt(3), FromInt(10))


(***************************************************************************)
(* Aggregation (storage.ts 208-239)                                        *)
(***************************************************************************)
RECURSIVE AllTransactions(_)
AllTransactions(evs) ==
  IF evs = <<>> THEN <<>> ELSE Head(evs).transactions \o AllTransactions(Tail(evs))

\* totalTransactions += transaction.amount, in log order
RECURSIVE SumAmounts(_, _)
SumAmounts(txs, acc) ==
  IF txs = <<>> THEN acc ELSE SumAmounts(Tail(txs), Add(acc, Head(txs).amount))

calculateCurrentPot(s) == Neg(SumAmounts(AllTransactions(s.events), Zero(0)))

\* balances that keep the last amount of a player instead of the sum
RECURSIVE ApplyTransactionsOverwrite(_, _)
ApplyTransactionsOverwrite(balances, txs) ==
  IF txs = <<>> THEN balances
  ELSE ApplyTransactionsOverwrite(
         MapSet(balances, Head(txs).playerId, Head(txs).amount), Tail(txs))

\* event.transactions.forEach: balances.set(playerId, (balances.get(playerId) || 0) + amount)
RECURSIVE ApplyTransactions(_, _)
ApplyTransactions(balances, txs) ==
  IF txs = <<>> THEN balances
  ELSE ApplyTransactions(
         MapSet(balances, Head(txs).playerId,
                Add(GetOrZero(balances, Head(txs).playerId), Head(txs).amount)),
         Tail(txs))

calculatePlayerBalances(s) ==
  ApplyTransactions([i \in 1..Len(s.players) |-> <<s.players[i].id, Zero(0)>>],
                    AllTransactions(s.events))

(***************************************************************************)
(* Persistence (storage.ts 35-53).  JSON.stringify writes a NaN or an      *)
(* infinity as null and -0 as 0; every other number is written in full.    *)
(***************************************************************************)
JsonNull == [k |-> "null", s |-> 0, m |-> <<>>, e |-> 0]

JsonNumber(a) ==
  IF a.k # "fin" THEN JsonNull ELSE IF IsZero(a) THEN Zero(0) ELSE a

\* Array.from(map.entries()): the entries of a Map as a JSON array
EntriesArray(map) == [array |-> map]

\* a Map handed to JSON.stringify as it is: an object without properties
EmptyObject == [object |-> <<>>]

\* metadata written with the Map left in place
JsonMetadataRawMap(metadata) ==
  IF metadata = NoMetadata THEN NoMetadata
  ELSE [metadata EXCEPT !.prese =
          IF metadata.prese # None THEN Some(EmptyObject) ELSE None]

\* metadata: event.metadata ? {...event.metadata, prese: event.metadata.prese
\*   ? Array.from(event.metadata.prese.entries()) : undefined} : undefined
\* (a Map, empty or not, is truthy)
JsonMetadata(metadata) ==
  IF metadata = NoMetadata THEN NoMetadata
  ELSE [metadata EXCEPT !.prese =
          IF metadata.prese # None THEN Some(EntriesArray(metadata.prese[1])) ELSE None]

JsonEvent(ev) ==
  [ev EXCEPT !.transactions =
               [i \in 1..Len(ev.transactions) |->
                  [playerId |-> ev.transactions[i].playerId,
                   amount   |-> JsonNumber(ev.transactions[i].amount)]],
             !.metadata = JsonMetadata(ev.metadata)]

JsonPlayer(player) == [player EXCEPT !.balance = JsonNumber(player.balance)]

JsonSession(s) ==
  [s EXCEPT !.piatto = JsonNumber(s.piatto),
            !.players = [i \in 1..Len(s.players) |-> JsonPlayer(s.players[i])],
            !.events = [i \in 1..Len(s.events) |-> JsonEvent(s.events[i])]]

(***************************************************************************)
(* getSession (storage.ts 6-33): JSON.parse, then the prese of every event *)
(* back into a Map.  new Map(x) throws when x is not iterable, and the     *)
(* catch makes the read return null.                                       *)
(***************************************************************************)
\* x can be iterated by new Map(x)
IsIterable(x) == "array" \in DOMAIN x

\* metadata: event.metadata ? {...event.metadata, prese: event.metadata.prese
\*   ? new Map(event.metadata.prese) : undefined} : undefined
\* (an array, empty or not, is truthy)
ParsedMetadata(metadata) ==
  IF metadata = NoMetadata THEN NoMetadata
  ELSE [metadata EXCEPT !.prese =
          IF metadata.prese # None THEN Some(metadata.prese[1].array) ELSE None]

ParsedEvent(ev) == [ev EXCEPT !.metadata = ParsedMetadata(ev.metadata)]

\* some new Map(...) of the conversion throws
ConversionThrows(json) ==
  \E i \in 1..Len(json.events) :
    /\ json.events[i].metadata # NoMetadata
    /\ json.events[i].metadata.prese # None
    /\ ~IsIterable(json.events[i].metadata.prese[1])

ParsedSession(json) ==
  [json EXCEPT !.events = [i \in 1..Len(json.events) |-> ParsedEvent(json.events[i])]]

\* a stored text that JSON.parse rejects
Unparsable == [notJson |-> TRUE]

\* None for null: no data, or an exception caught
getSession(data) ==
  IF data = None THEN None
  ELSE IF data[1] = Unparsable THEN None
  ELSE IF ConversionThrows(data[1]) THEN None
  ELSE Some(ParsedSession(data[1]))

\* session.updatedAt = Date.now(), then the write
Stamped(s) == [s EXCEPT !.updatedAt = now]

\* a save that reads the stored log first and keeps the events it lacks
saveSessionMerging(s) ==
  /\ session' = Stamped(s)
  /\ stored' = IF storage # "ok" THEN stored
               ELSE IF getSession(stored) = None THEN Some(JsonSession(Stamped(s)))
               ELSE Some(JsonSession([Stamped(s) EXCEPT !.events =
                      SelectSeq(getSession(stored)[1].events,
                                LAMBDA e : \A i \in 1..Len(s.events) : s.events[i].id # e.id)
                      \o s.events]))
  /\ UNCHANGED <<storage, other>>
  /\ saves' = saves + 1
  /\ now' = now + 1

\* a save whose failure is not caught: the write is taken as done
saveSessionUnguarded(s) ==
  /\ session' = Stamped(s)
  /\ stored' = Some(JsonSession(Stamped(s)))
  /\ UNCHANGED <<storage, other>>
  /\ saves' = saves + 1
  /\ now' = now + 1

\* saveSession (storage.ts 35-53): setItem throws inside the try
saveSession(s) ==
  /\ session' = Stamped(s)
  /\ stored' = IF storage = "ok" THEN Some(JsonSession(Stamped(s))) ELSE stored
  /\ UNCHANGED <<storage, other>>
  /\ saves' = saves + 1
  /\ now' = now + 1

(***************************************************************************)
(* Sharing (utils/sharing.ts 9-79).  The text of a session is gzipped,     *)
(* written in base64, made URL-safe by replacing + and / and by dropping   *)
(* the = padding; decoding puts the padding back from the length of what   *)
(* it received.  The compressed bytes are not modelled: only their number  *)
(* is, which decides the padding, and it is an argument of the encoder.    *)
(***************************************************************************)
\* pako.gzip(jsonString), n bytes long
Gzip(jsonString, n) == [format |-> "gzip", text |-> jsonString, length |-> n]

\* btoa: 4 characters for every 3 bytes, the last group padded with =
Base64(bytes) ==
  [alphabet |-> "standard",
   bytes    |-> bytes,
   chars    |-> 4 * ((bytes.length + 2) \div 3) - ((3 - (bytes.length % 3)) % 3),
   padding  |-> (3 - (bytes.length % 3)) % 3]

\* .replace(/\+/g, '-').replace(/\//g, '_').replace(/=/g, '')
UrlSafe(base64) == [base64 EXCEPT !.alphabet = "url", !.padding = 0]

encodeGameForSharing(s, n) == UrlSafe(Base64(Gzip(JsonSession(s), n)))

\* a padding that is not reduced modulo 4
PaddingUnreduced(chars) == 4 - (chars % 4)

\* (4 - (base64.length % 4)) % 4
Padding(chars) == (4 - (chars % 4)) % 4

\* .replace(/-/g, '+').replace(/_/g, '/'), then the padding
Standard(encodedData) ==
  [encodedData EXCEPT
     !.alphabet = IF @ \in {"url", "standard"} THEN "standard" ELSE @,
     !.padding = Padding(encodedData.chars)]

\* a decoder whose atob accepts three = at the end
DecodingThrowsLenient(base64) ==
  \/ base64.alphabet # "standard"
  \/ (base64.chars + base64.padding) % 4 # 0
  \/ base64.bytes.format # "gzip"
  \/ base64.bytes.text = Unparsable

\* atob throws on a text that is not base64, pako.ungzip on bytes that are
\* not a gzip stream, JSON.parse on a text that is not JSON
DecodingThrows(base64) ==
  \/ base64.alphabet # "standard"
  \/ (base64.chars + base64.padding) % 4 # 0
  \/ base64.padding > 2
  \/ 3 * ((base64.chars + base64.padding) \div 4) - base64.padding # base64.bytes.length
  \/ base64.bytes.format # "gzip"
  \/ base64.bytes.text = Unparsable

\* None for null
decodeGameFromSharing(encodedData) ==
  IF DecodingThrows(Standard(encodedData)) THEN None
  ELSE IF ConversionThrows(Standard(encodedData).bytes.text) THEN None
  ELSE Some(ParsedSession(Standard(encodedData).bytes.text))

(***************************************************************************)
(* createNewSession (storage.ts 55-75)                                     *)
(***************************************************************************)
NewPlayers(names) ==
  [i \in 1..Len(names) |-> [id |-> names[i], name |-> names[i],
                            balance |-> Zero(0), isActive |-> TRUE]]

NewSession(names, piatto) ==
  [id |-> 0, piatto |-> piatto, players |-> NewPlayers(names),
   currentDealerIndex |-> 0, events |-> <<>>, createdAt |-> 0, updatedAt |-> 0]

\* the hash #/game/<id>, #/game/new, #/games, or one the app does not know
GameHash(id) == [route |-> "game", param |-> "id", id |-> id]
NewGameHash == [route |-> "game", param |-> "new", id |-> 0]
GamesHash == [route |-> "games", param |-> "", id |-> 0]

\* the string ''
EmptyText == [body |-> "", padded |-> FALSE]

\* the share modal before it was ever opened (share-game-modal.ts 334-368);
\* opening counts the calls of openModal
ClosedModal ==
  [shareUrl |-> EmptyText, showModal |-> FALSE, shortUrl |-> EmptyText,
   isGeneratingShortUrl |-> FALSE, qrCodeDataUrl |-> EmptyText, qrError |-> FALSE,
   sizesOf |-> EmptyText, updatePending |-> FALSE, opening |-> 0]

\* the app with a game on the screen, nothing under review, no modal
GameOpen ==
  /\ hasSession = TRUE
  /\ currentRoute = "game-play"
  /\ location = [hash |-> GameHash(0), hashchange |-> FALSE]
  /\ reviewingRoundResult = None
  /\ reviewingResult = None
  /\ modal = ClosedModal
  /\ inflight = <<>>

NoCall ==
  [op |-> "createNewSession", dealerPlayerId |-> UnknownId, preseMap |-> <<>>,
   bestiaPlayerIds |-> <<>>, session |-> NewSession(PlayerNames, DefaultPiatto),
   saves |-> 0]

Init ==
  /\ GameOpen
  /\ session = NewSession(PlayerNames, DefaultPiatto)
  /\ stored = Some(JsonSession(NewSession(PlayerNames, DefaultPiatto)))
  /\ saves = 1
  /\ now = 1
  /\ nextId = 1
  /\ last = NoCall
  /\ budget = MaxCalls
  /\ storage = "ok"
  /\ other = None


(***************************************************************************)
(* recordRound (storage.ts 77-143)                                         *)
(***************************************************************************)
\* a - b
Sub(a, b) == Add(a, Neg(b))

\* winners = entries of preseMap with prese > 0
IsWinner(entry) == entry[2] > 0

\* winners taken without the prese > 0 filter
WinnersUnfiltered(preseMap) == preseMap

Winners(preseMap) == SelectSeq(preseMap, IsWinner)

\* totalPrese = winners.reduce((sum, [_, prese]) => sum + prese, 0)
RECURSIVE SumPrese(_)
SumPrese(entries) ==
  IF entries = <<>> THEN 0 ELSE Head(entries)[2] + SumPrese(Tail(entries))

\* every winner is paid the whole pot
ShareWholePot(prese, totalPrese, potAtStart) == potAtStart

\* a share that forgets the number of prese of the winner
ShareUnweighted(prese, totalPrese, potAtStart) ==
  Div(potAtStart, FromInt(totalPrese))

\* share = (prese / totalPrese) * potAtStart
Share(prese, totalPrese, potAtStart) ==
  Mul(Div(FromInt(prese), FromInt(totalPrese)), potAtStart)

\* winners.forEach: payouts.set(playerId, (payouts.get(playerId) || 0) + share)
RECURSIVE CreditWinners(_, _, _, _)
CreditWinners(payouts, winners, totalPrese, potAtStart) ==
  IF winners = <<>> THEN payouts
  ELSE CreditWinners(
         MapSet(payouts, Head(winners)[1],
                Add(GetOrZero(payouts, Head(winners)[1]),
                    Share(Head(winners)[2], totalPrese, potAtStart))),
         Tail(winners), totalPrese, potAtStart)

\* bestia players that share one pot between them
RECURSIVE DebitEach(_, _, _)
DebitEach(payouts, bestiaPlayerIds, amount) ==
  IF bestiaPlayerIds = <<>> THEN payouts
  ELSE DebitEach(
         MapSet(payouts, Head(bestiaPlayerIds),
                Add(GetOrZero(payouts, Head(bestiaPlayerIds)), Neg(amount))),
         Tail(bestiaPlayerIds), amount)

DebitBestiaSplit(payouts, bestiaPlayerIds, potAtStart) ==
  IF bestiaPlayerIds = <<>> THEN payouts
  ELSE DebitEach(payouts, bestiaPlayerIds,
                 Div(potAtStart, FromInt(Len(bestiaPlayerIds))))

\* bestiaPlayerIds.forEach: payouts.set(playerId, (payouts.get(playerId) || 0) - potAtStart)
RECURSIVE DebitBestia(_, _, _)
DebitBestia(payouts, bestiaPlayerIds, potAtStart) ==
  IF bestiaPlayerIds = <<>> THEN payouts
  ELSE DebitBestia(
         MapSet(payouts, Head(bestiaPlayerIds),
                Sub(GetOrZero(payouts, Head(bestiaPlayerIds)), potAtStart)),
         Tail(bestiaPlayerIds), potAtStart)

InitialPayouts(s) == [i \in 1..Len(s.players) |-> <<s.players[i].id, Zero(0)>>]

RoundPayouts(s, preseMap, bestiaPlayerIds, potAtStart) ==
  IF Len(bestiaPlayerIds) > 0
  THEN DebitBestia(
         CreditWinners(InitialPayouts(s), Winners(preseMap),
                       SumPrese(Winners(preseMap)), potAtStart),
         bestiaPlayerIds, potAtStart)
  ELSE CreditWinners(InitialPayouts(s), Winners(preseMap),
                     SumPrese(Winners(preseMap)), potAtStart)

\* a filter that keeps every entry
IsAnyEntry(entry) == TRUE

\* entries with amount !== 0, as transactions
IsNonZeroEntry(entry) == ~StrictEq(entry[2], Zero(0))
AsTransaction(entry) == [playerId |-> entry[1], amount |-> entry[2]]
RoundTransactions(payouts) ==
  LET kept == SelectSeq(payouts, IsNonZeroEntry)
  IN  [i \in 1..Len(kept) |-> AsTransaction(kept[i])]

DealerAtPointer(s) == s.players[s.currentDealerIndex + 1].id

RoundEvent(s, preseMap, bestiaPlayerIds) ==
  [id           |-> nextId,
   type         |-> "round_end",
   timestamp    |-> now,
   transactions |-> RoundTransactions(
                      RoundPayouts(s, preseMap, bestiaPlayerIds, calculateCurrentPot(s))),
   metadata     |-> [dealerPlayerId  |-> Some(DealerAtPointer(s)),
                     prese           |-> Some(preseMap),
                     bestiaPlayers   |-> Some(bestiaPlayerIds)]]

\* a rotation that wraps one position too late
RotatedPastEnd(s) == (s.currentDealerIndex + 1) % (Len(s.players) + 1)

\* a rotation that does not wrap
RotatedNoWrap(s) == s.currentDealerIndex + 1

\* session.currentDealerIndex = (session.currentDealerIndex + 1) % session.players.length
Rotated(s) == (s.currentDealerIndex + 1) % Len(s.players)

recordRound(s, preseMap, bestiaPlayerIds) ==
  [s EXCEPT !.events = Append(s.events, RoundEvent(s, preseMap, bestiaPlayerIds)),
            !.currentDealerIndex = Rotated(s)]

(***************************************************************************)
(* recordDealerSelection (storage.ts 145-178)                              *)
(***************************************************************************)
\* a position counted from 1
FindIndexFromOne(s, playerId) ==
  IF \E i \in 1..Len(s.players) : s.players[i].id = playerId
  THEN CHOOSE i \in 1..Len(s.players) :
         /\ s.players[i].id = playerId
         /\ \A j \in 1..(i - 1) : s.players[j].id # playerId
  ELSE 0 - 1

\* session.players.findIndex((p) => p.id === dealerPlayerId), -1 if absent
FindIndex(s, playerId) ==
  IF \E i \in 1..Len(s.players) : s.players[i].id = playerId
  THEN (CHOOSE i \in 1..Len(s.players) :
          /\ s.players[i].id = playerId
          /\ \A j \in 1..(i - 1) : s.players[j].id # playerId) - 1
  ELSE 0 - 1

\* session.players.find((p) => p.id === dealerPlayerId): None for undefined
FindPlayer(s, playerId) ==
  IF \E i \in 1..Len(s.players) : s.players[i].id = playerId
  THEN Some(s.players[CHOOSE i \in 1..Len(s.players) :
                        /\ s.players[i].id = playerId
                        /\ \A j \in 1..(i - 1) : s.players[j].id # playerId])
  ELSE None

\* a selection that is never turned down
DealerFoundAlways(s, dealerPlayerId) == TRUE

\* neither "if (!dealer) return session" nor "if (dealerIndex === -1) return session"
DealerFound(s, dealerPlayerId) ==
  /\ FindPlayer(s, dealerPlayerId) # None
  /\ FindIndex(s, dealerPlayerId) # 0 - 1

\* a dealer_pay event that names the dealer the pointer had before the call
DealerPayEventOfPointer(s, dealerPlayerId) ==
  [id           |-> nextId,
   type         |-> "dealer_pay",
   timestamp    |-> now,
   transactions |-> <<[playerId |-> dealerPlayerId, amount |-> Neg(s.piatto)]>>,
   metadata     |-> [dealerPlayerId  |-> Some(DealerAtPointer(s)),
                     prese           |-> None,
                     bestiaPlayers   |-> None]]

DealerPayEvent(s, dealerPlayerId) ==
  [id           |-> nextId,
   type         |-> "dealer_pay",
   timestamp    |-> now,
   transactions |-> <<[playerId |-> dealerPlayerId, amount |-> Neg(s.piatto)]>>,
   metadata     |-> [dealerPlayerId  |-> Some(dealerPlayerId),
                     prese           |-> None,
                     bestiaPlayers   |-> None]]

recordDealerSelection(s, dealerPlayerId) ==
  [s EXCEPT !.currentDealerIndex = FindIndex(s, dealerPlayerId),
            !.events = Append(s.events, DealerPayEvent(s, dealerPlayerId))]

(***************************************************************************)
(* recordGiroChiuso (storage.ts 180-206)                                   *)
(***************************************************************************)
GiroChiusoEvent(s) ==
  [id           |-> nextId,
   type         |-> "giro_chiuso",
   timestamp    |-> now,
   transactions |-> [i \in 1..Len(s.players) |->
                       [playerId |-> s.players[i].id, amount |-> Neg(s.piatto)]],
   metadata     |-> [dealerPlayerId  |-> Some(DealerAtPointer(s)),
                     prese           |-> None,
                     bestiaPlayers   |-> None]]

\* a giro chiuso written at the head of the log
recordGiroChiusoFirst(s) ==
  [s EXCEPT !.events = <<GiroChiusoEvent(s)>> \o s.events,
            !.currentDealerIndex = Rotated(s)]

recordGiroChiuso(s) ==
  [s EXCEPT !.events = Append(s.events, GiroChiusoEvent(s)),
            !.currentDealerIndex = Rotated(s)]

(***************************************************************************)
(* The calls the model explores.  A round is given by one selection for    *)
(* every active player:                                                    *)
(* the option of the round form chosen for it.  The form (game-input.ts    *)
(* 97-139) submits the selections with TotalPrese prese in all;            *)
(* recordRound itself accepts any map, and the rounds in which nobody      *)
(* took a presa are explored as well.  At most MaxCalls calls that write   *)
(* the session follow its creation.                                        *)
(***************************************************************************)
ActiveIndexes(s) == {i \in 1..Len(s.players) : s.players[i].isActive}

\* the options of the form's radio group (game-input.ts 22-23)
Selections == {"none", "1", "2", "3", "bestia"}

\* parseInt(selection) for a number of prese, 0 for 'none' and 'bestia'
PreseOf(selection) ==
  CASE selection = "1" -> 1
    [] selection = "2" -> 2
    [] selection = "3" -> 3
    [] OTHER -> 0

RECURSIVE SumChoice(_, _)
SumChoice(choice, idxs) ==
  IF idxs = {} THEN 0
  ELSE PreseOf(choice[CHOOSE j \in idxs : TRUE])
       + SumChoice(choice, idxs \ {CHOOSE j \in idxs : TRUE})

RoundChoices(s) ==
  {choice \in [ActiveIndexes(s) -> Selections] :
     SumChoice(choice, ActiveIndexes(s)) \in {0, TotalPrese}}

\* the Map and the list the form builds, in roster order
RECURSIVE PreseMapOf(_, _, _)
PreseMapOf(s, choice, i) ==
  IF i > Len(s.players) THEN <<>>
  ELSE (IF s.players[i].isActive
        THEN <<<<s.players[i].id, PreseOf(choice[i])>>>> ELSE <<>>)
       \o PreseMapOf(s, choice, i + 1)

RECURSIVE BestiaListOf(_, _, _)
BestiaListOf(s, choice, i) ==
  IF i > Len(s.players) THEN <<>>
  ELSE (IF s.players[i].isActive /\ choice[i] = "bestia"
        THEN <<s.players[i].id>> ELSE <<>>)
       \o BestiaListOf(s, choice, i + 1)

Call(op, dealerPlayerId, preseMap, bestiaPlayerIds) ==
  [op |-> op, dealerPlayerId |-> dealerPlayerId, preseMap |-> preseMap,
   bestiaPlayerIds |-> bestiaPlayerIds, session |-> session, saves |-> saves]

RecordRound ==
  /\ UNCHANGED ui
  /\ saves <= budget
  /\ UNCHANGED budget
  /\ \E choice \in RoundChoices(session) :
       /\ last' = Call("recordRound", UnknownId, PreseMapOf(session, choice, 1),
                       BestiaListOf(session, choice, 1))
       /\ saveSession(recordRound(session, PreseMapOf(session, choice, 1),
                                  BestiaListOf(session, choice, 1)))
       /\ nextId' = nextId + 1

RecordDealerSelection ==
  /\ UNCHANGED ui
  /\ saves <= budget
  /\ UNCHANGED budget
  /\ \E dealerPlayerId \in {session.players[i].id : i \in 1..Len(session.players)}
                             \cup {UnknownId} :
       /\ last' = Call("recordDealerSelection", dealerPlayerId, <<>>, <<>>)
       /\ IF DealerFound(session, dealerPlayerId)
          THEN /\ saveSession(recordDealerSelection(session, dealerPlayerId))
               /\ nextId' = nextId + 1
          ELSE UNCHANGED <<session, stored, saves, now, nextId, storage, other>>

RecordGiroChiuso ==
  /\ UNCHANGED ui
  /\ saves <= budget
  /\ UNCHANGED budget
  /\ last' = Call("recordGiroChiuso", UnknownId, <<>>, <<>>)
  /\ saveSession(recordGiroChiuso(session))
  /\ nextId' = nextId + 1

(***************************************************************************)
(* togglePlayerActive (storage.ts 291-298), called by the settings panel   *)
(* with the opposite of the player's status (game-settings.ts 200-201).    *)
(***************************************************************************)
togglePlayerActive(s, playerId, isActive) ==
  [s EXCEPT !.players =
     [i \in 1..Len(s.players) |->
        IF s.players[i].id = playerId
        THEN [s.players[i] EXCEPT !.isActive = isActive]
        ELSE s.players[i]]]

TogglePlayerActive ==
  /\ UNCHANGED ui
  /\ saves <= budget
  /\ UNCHANGED budget
  /\ \E i \in 1..Len(session.players) :
       /\ last' = Call("togglePlayerActive", session.players[i].id, <<>>, <<>>)
       /\ saveSession(togglePlayerActive(session, session.players[i].id,
                                         ~session.players[i].isActive))
       /\ UNCHANGED nextId

(***************************************************************************)
(* The dealer as the log gives it (storage.ts 241-261)                     *)
(***************************************************************************)
\* the first dealer_pay event of the log instead of the latest
RECURSIVE FirstDealerPay(_, _)
FirstDealerPay(evs, i) ==
  IF i > Len(evs) THEN 0
  ELSE IF evs[i].type = "dealer_pay" THEN i ELSE FirstDealerPay(evs, i + 1)

\* for (let i = session.events.length - 1; i >= 0; i--): the position of the
\* first dealer_pay event met, 0 when the loop ends without one
RECURSIVE LatestDealerPay(_, _)
LatestDealerPay(evs, i) ==
  IF i < 1 THEN 0
  ELSE IF evs[i].type = "dealer_pay" THEN i ELSE LatestDealerPay(evs, i - 1)

\* event.metadata?.dealerPlayerId || session.players[0].id
DealerOfEvent(s, ev) ==
  IF ev.metadata # NoMetadata /\ ev.metadata.dealerPlayerId # None
     /\ ev.metadata.dealerPlayerId[1] # ""
  THEN ev.metadata.dealerPlayerId[1]
  ELSE s.players[1].id

getCurrentDealerIdOldest(s) ==
  IF FirstDealerPay(s.events, 1) = 0 THEN s.players[1].id
  ELSE DealerOfEvent(s, s.events[FirstDealerPay(s.events, 1)])

getCurrentDealerId(s) ==
  IF LatestDealerPay(s.events, Len(s.events)) = 0 THEN s.players[1].id
  ELSE DealerOfEvent(s, s.events[LatestDealerPay(s.events, Len(s.events))])

\* the player after the dealer, inactive players passed over
RECURSIVE NextActiveFrom(_, _, _)
NextActiveFrom(s, index, tried) ==
  IF tried >= Len(s.players) \/ s.players[(index % Len(s.players)) + 1].isActive
  THEN s.players[(index % Len(s.players)) + 1].id
  ELSE NextActiveFrom(s, index + 1, tried + 1)

getNextDealerIdSkipping(s) ==
  NextActiveFrom(s, FindIndex(s, getCurrentDealerId(s)) + 1, 1)

\* session.players[(currentDealerIndex + 1) % session.players.length].id
getNextDealerId(s) ==
  s.players[((FindIndex(s, getCurrentDealerId(s)) + 1) % Len(s.players)) + 1].id

(***************************************************************************)
(* The other handlers of the application (app.ts 544-584): deletion of an  *)
(* event of the history, and the settings panel, which sends a new ante    *)
(* (parseFloat(input) || 0, game-settings.ts 55-58), an order of the       *)
(* current roster (game-settings.ts 36-43, 90-110) or a trimmed, non-empty *)
(* name (game-settings.ts 112-121).                                        *)
(***************************************************************************)
AppCall(op, arg) ==
  [op |-> op, arg |-> arg, session |-> session, saves |-> saves]

\* an event that leaves when any event of its type is deleted
KeepsOtherTypes(s, eventId) ==
  LET types == {s.events[i].type : i \in {j \in 1..Len(s.events) : s.events[j].id = eventId}}
      Keep(e) == e.type \notin types
  IN  SelectSeq(s.events, Keep)

\* this.session.events.filter((e) => e.id !== eventId)
KeepsOtherIds(s, eventId) ==
  LET Keep(e) == e.id # eventId
  IN  SelectSeq(s.events, Keep)

\* a deletion that puts the pointer back on the dealer of the remaining log
deleteEventResettingDealer(s, eventId) ==
  [s EXCEPT !.events = KeepsOtherIds(s, eventId),
            !.currentDealerIndex =
               FindIndex(s, getCurrentDealerId([s EXCEPT !.events = KeepsOtherIds(s, eventId)]))]

deleteEvent(s, eventId) == [s EXCEPT !.events = KeepsOtherIds(s, eventId)]

\* deletions shorten the log: they go on after the last budgeted call
DeleteEvent ==
  /\ UNCHANGED ui
  /\ UNCHANGED budget
  /\ \E i \in 1..Len(session.events) :
       /\ last' = AppCall("deleteEvent", session.events[i].id)
       /\ saveSession(deleteEvent(session, session.events[i].id))
       /\ UNCHANGED nextId

\* the antes typed in the settings panel: 0, 0.1 and -1
PiattoInputs ==
  {Zero(0), Div(FromInt(1), FromInt(10)), Neg(FromInt(1))}

updatePiatto(s, newPiatto) == [s EXCEPT !.piatto = newPiatto]

UpdatePiatto ==
  /\ UNCHANGED ui
  /\ saves <= budget
  /\ UNCHANGED budget
  /\ \E newPiatto \in PiattoInputs :
       /\ last' = AppCall("updatePiatto", newPiatto)
       /\ saveSession(updatePiatto(session, newPiatto))
       /\ UNCHANGED nextId

\* playerIds.map((id) => playerMap.get(id)!).filter(Boolean)
RECURSIVE PlayersInOrder(_, _)
PlayersInOrder(s, playerIds) ==
  IF playerIds = <<>> THEN <<>>
  ELSE (IF FindPlayer(s, Head(playerIds)) # None
        THEN FindPlayer(s, Head(playerIds)) ELSE <<>>)
       \o PlayersInOrder(s, Tail(playerIds))

updatePlayerOrder(s, playerIds) ==
  [s EXCEPT !.players = PlayersInOrder(s, playerIds)]

\* the orders of the roster the panel can send
PlayerOrders(s) ==
  {[i \in 1..Len(s.players) |-> s.players[f[i]].id] :
     f \in {g \in [1..Len(s.players) -> 1..Len(s.players)] :
              \A i, j \in 1..Len(s.players) : g[i] = g[j] => i = j}}

UpdatePlayerOrder ==
  /\ UNCHANGED ui
  /\ saves <= budget
  /\ UNCHANGED budget
  /\ \E playerIds \in PlayerOrders(session) :
       /\ last' = AppCall("updatePlayerOrder", playerIds)
       /\ saveSession(updatePlayerOrder(session, playerIds))
       /\ UNCHANGED nextId

\* the name typed for a new player; its identifier is drawn like an event's
NewPlayerNames == {"P4"}

addPlayer(s, playerName) ==
  [s EXCEPT !.players =
     Append(s.players, [id |-> playerName, name |-> playerName,
                        balance |-> Zero(0), isActive |-> TRUE])]

AddPlayer ==
  /\ UNCHANGED ui
  /\ saves <= budget
  /\ UNCHANGED budget
  /\ \E playerName \in NewPlayerNames :
       /\ FindPlayer(session, playerName) = None
       /\ last' = AppCall("addPlayer", playerName)
       /\ saveSession(addPlayer(session, playerName))
       /\ UNCHANGED nextId

Next ==
  \/ RecordDealerSelection
  \/ RecordRound
  \/ RecordGiroChiuso
  \/ TogglePlayerActive

Spec == Init /\ [][Next]_vars

(***************************************************************************)
(* The whole application on a session of two players, one call longer.     *)
(***************************************************************************)
TwoPlayerNames == <<"P1", "P2">>

AppInit ==
  /\ GameOpen
  /\ session = NewSession(TwoPlayerNames, DefaultPiatto)
  /\ stored = Some(JsonSession(NewSession(TwoPlayerNames, DefaultPiatto)))
  /\ saves = 1
  /\ now = 1
  /\ nextId = 1
  /\ last = [NoCall EXCEPT !.session = NewSession(TwoPlayerNames, DefaultPiatto)]
  /\ budget = MaxCalls + 1
  /\ storage = "ok"
  /\ other = None

AppNext ==
  \/ Next
  \/ DeleteEvent
  \/ UpdatePiatto
  \/ UpdatePlayerOrder
  \/ AddPlayer

AppSpec == AppInit /\ [][AppNext]_vars

(***************************************************************************)
(* The environment of the app: a localStorage that fails or that holds a   *)
(* text the app did not write, a second tab on the same storage, and a     *)
(* share link that is opened.                                              *)
(***************************************************************************)
EnvCall(op, arg) ==
  [op |-> op, arg |-> arg, session |-> session, saves |-> saves,
   stored |-> stored, other |-> other]

\* getSession with the state of localStorage (storage.ts 6-33): getItem
\* throws inside the try, and the catch returns null
getStoredSession(st, data) == IF st = "throws" THEN None ELSE getSession(data)

\* from now on every call of localStorage throws
StorageBreaks ==
  /\ UNCHANGED ui
  /\ storage = "ok"
  /\ storage' = "throws"
  /\ last' = EnvCall("storageBreaks", None)
  /\ UNCHANGED <<session, stored, saves, now, nextId, budget, other>>

\* the stored text is replaced by one that JSON.parse rejects
StorageCorrupted ==
  /\ UNCHANGED ui
  /\ storage = "ok"
  /\ stored # Some(Unparsable)
  /\ stored' = Some(Unparsable)
  /\ last' = EnvCall("storageCorrupted", None)
  /\ UNCHANGED <<session, saves, now, nextId, budget, storage, other>>

\* connectedCallback and loadSession of a second tab (app.ts 24-37)
loadSession == getStoredSession(storage, stored)

OpenTab ==
  /\ UNCHANGED ui
  /\ other = None
  /\ other' = loadSession
  /\ last' = EnvCall("loadSession", None)
  /\ UNCHANGED <<session, stored, saves, now, nextId, budget, storage>>

\* the user moves to the other tab: the handlers act on the tab in front
SwitchTab ==
  /\ UNCHANGED ui
  /\ other # None
  /\ session' = other[1]
  /\ other' = Some(session)
  /\ last' = EnvCall("switchTab", None)
  /\ UNCHANGED <<stored, saves, now, nextId, budget, storage>>

\* a session of another device, with an id of its own
ForeignSession == [NewSession(TwoPlayerNames, Zero(0)) EXCEPT !.id = 1]

\* payloads that are not the URL-safe base64 of a gzip of JSON: a character
\* outside the alphabet, a length no base64 text has, lost characters,
\* bytes that are no gzip stream, a compressed text that is no JSON
InvalidPayloads ==
  { [encodeGameForSharing(session, 21) EXCEPT !.alphabet = "other"],
    [encodeGameForSharing(session, 22) EXCEPT !.chars = @ - 1],
    [encodeGameForSharing(session, 21) EXCEPT !.chars = @ - 4],
    UrlSafe(Base64([format |-> "raw", text |-> Unparsable, length |-> 21])),
    UrlSafe(Base64(Gzip(Unparsable, 21))) }

SharePayloads ==
  { encodeGameForSharing(session, 21), encodeGameForSharing(ForeignSession, 21) }
    \cup InvalidPayloads

\* the stored game with this id, none if there is no such game
getGameById(id) ==
  IF loadSession = None THEN None
  ELSE IF loadSession[1].id = id THEN loadSession
  ELSE None

\* app.ts 421-435
importedSession(sharedSession) ==
  IF getGameById(sharedSession.id) # None
  THEN [sharedSession EXCEPT !.updatedAt = now]
  ELSE [sharedSession EXCEPT !.createdAt = now, !.updatedAt = now]

\* handleSharedGame (app.ts 406-449): the session of the tab is not touched
handleSharedGame(shareParam) ==
  IF decodeGameFromSharing(shareParam) = None
  THEN UNCHANGED <<session, stored, saves, now, storage, other>>
  ELSE /\ stored' = IF storage = "ok"
                    THEN Some(JsonSession(Stamped(importedSession(
                           decodeGameFromSharing(shareParam)[1]))))
                    ELSE stored
       /\ saves' = saves + 1
       /\ now' = now + 1
       /\ UNCHANGED <<session, storage, other>>

HandleSharedGame ==
  /\ UNCHANGED ui
  /\ saves <= budget
  /\ \E shareParam \in SharePayloads :
       /\ handleSharedGame(shareParam)
       /\ last' = EnvCall("handleSharedGame", shareParam)
  /\ UNCHANGED <<nextId, budget>>

EnvInit ==
  /\ GameOpen
  /\ session = NewSession(TwoPlayerNames, DefaultPiatto)
  /\ stored = Some(JsonSession(NewSession(TwoPlayerNames, DefaultPiatto)))
  /\ saves = 1
  /\ now = 1
  /\ nextId = 1
  /\ last = [NoCall EXCEPT !.session = NewSession(TwoPlayerNames, DefaultPiatto)]
  /\ budget = MaxCalls
  /\ storage = "ok"
  /\ other = None

EnvNext ==
  \/ Next
  \/ StorageBreaks
  \/ StorageCorrupted
  \/ OpenTab
  \/ SwitchTab
  \/ HandleSharedGame

EnvSpec == EnvInit /\ [][EnvNext]_vars

(***************************************************************************)
(* Manual entries.  recordManualEntry and updateManualEntry are called by  *)
(* the app (handleManualEntryRecorded, handleManualEntryEdited) with the   *)
(* Map of the form (game-actions.ts 198-230); their bodies follow the      *)
(* ledger's description: one transaction for every entry of the Map, the   *)
(* dealer pointer untouched; an edit replaces the transactions and the     *)
(* metadata of the event with the given id and does nothing without one.   *)
(***************************************************************************)
ManualEntryMetadata(description) ==
  [dealerPlayerId |-> None, prese |-> None, bestiaPlayers |-> None,
   description |-> description]

\* the entries with amount 0 left out, as a round leaves them out
ManualTransactionsNonZero(amounts) ==
  [i \in 1..Len(SelectSeq(amounts, IsNonZeroEntry)) |->
     AsTransaction(SelectSeq(amounts, IsNonZeroEntry)[i])]

ManualTransactions(amounts) ==
  [i \in 1..Len(amounts) |-> [playerId |-> amounts[i][1], amount |-> amounts[i][2]]]

ManualEntryEvent(amounts, description) ==
  [id           |-> nextId,
   type         |-> "manual_entry",
   timestamp    |-> now,
   transactions |-> ManualTransactions(amounts),
   metadata     |-> ManualEntryMetadata(description)]

recordManualEntry(s, amounts, description) ==
  [s EXCEPT !.events = Append(s.events, ManualEntryEvent(amounts, description))]

HasEvent(s, eventId) == \E i \in 1..Len(s.events) : s.events[i].id = eventId

\* an edit that writes the new event at the end of the log
updateManualEntryAtEnd(s, eventId, amounts, description) ==
  [s EXCEPT !.events =
     SelectSeq(s.events, LAMBDA e : e.id # eventId)
     \o [i \in 1..1 |->
           [(CHOOSE e \in {s.events[j] : j \in 1..Len(s.events)} : e.id = eventId)
              EXCEPT !.transactions = ManualTransactions(amounts),
                     !.metadata = ManualEntryMetadata(description)]]]

updateManualEntry(s, eventId, amounts, description) ==
  [s EXCEPT !.events =
     [i \in 1..Len(s.events) |->
        IF s.events[i].id = eventId
        THEN [s.events[i] EXCEPT !.transactions = ManualTransactions(amounts),
                                 !.metadata = ManualEntryMetadata(description)]
        ELSE s.events[i]]]

\* the amounts a user types: a debit, nothing, a credit
ManualValue(n) ==
  CASE n = 1 -> Neg(FromInt(1))
    [] n = 2 -> Zero(0)
    [] OTHER -> FromInt(2)

\* the Map of the form in roster order; 0 leaves the player out of the Map
RECURSIVE AmountsMapOf(_, _, _)
AmountsMapOf(s, choice, i) ==
  IF i > Len(s.players) THEN <<>>
  ELSE (IF choice[i] # 0
        THEN <<<<s.players[i].id, ManualValue(choice[i])>>>> ELSE <<>>)
       \o AmountsMapOf(s, choice, i + 1)

\* the Maps explored: empty, all zero, partial, summing to zero or not
ManualChoices(s) ==
  {choice \in [1..Len(s.players) -> 0..3] :
     \/ \A i \in 1..Len(s.players) : choice[i] = 0
     \/ \A i \in 1..Len(s.players) : choice[i] = 2
     \/ /\ choice[1] \in {1, 3}
        /\ choice[2] = 1
        /\ \A i \in 3..Len(s.players) : choice[i] \in {0, 2, 3}}

\* description: this.manualDescription || undefined
Descriptions == {None, Some("correzione")}

LedgerCall(op, eventId, amounts, description) ==
  [op |-> op, eventId |-> eventId, amounts |-> amounts, description |-> description,
   session |-> session, saves |-> saves, stored |-> stored]

\* handleManualEntryRecorded (part_001 217-229)
RecordManualEntry ==
  /\ UNCHANGED ui
  /\ saves <= budget
  /\ UNCHANGED budget
  /\ \E choice \in ManualChoices(session), description \in Descriptions :
       /\ last' = LedgerCall("recordManualEntry", nextId,
                             AmountsMapOf(session, choice, 1), description)
       /\ saveSession(recordManualEntry(session, AmountsMapOf(session, choice, 1),
                                        description))
  /\ nextId' = nextId + 1

\* handleManualEntryEdited (part_001 257-281)
UpdateManualEntry ==
  /\ UNCHANGED ui
  /\ saves <= budget
  /\ UNCHANGED <<budget, nextId>>
  /\ \E eventId \in 1..nextId, choice \in ManualChoices(session),
        description \in Descriptions :
       /\ last' = LedgerCall("updateManualEntry", eventId,
                             AmountsMapOf(session, choice, 1), description)
       /\ IF HasEvent(session, eventId)
          THEN saveSession(updateManualEntry(session, eventId,
                                             AmountsMapOf(session, choice, 1),
                                             description))
          ELSE UNCHANGED <<session, stored, saves, now, storage, other>>

(***************************************************************************)
(* Settlement.  calculateSettlementPayments is called by the payments view *)
(* (game-input.ts 484-500); its body follows the settlement engine's       *)
(* description: from the balances, match the largest debtor with the       *)
(* largest creditor, transfer min(|debt|, credit), and repeat while a      *)
(* debtor and a creditor are left beyond the tolerance.  Ties go to the    *)
(* first player of the roster.  The loop is given as many steps as there   *)
(* are players and reports whether it finished within them.                *)
(***************************************************************************)
\* 1e-9, the binary64 value of the literal: 4835703278458517 * 2^-82
Tolerance == [k |-> "fin", s |-> 0, m |-> <<22165, 20557, 14383, 137>>, e |-> 0 - 82]

\* a < b, false when one of them is NaN
IsNegative(d) == ~IsNaN(d) /\ ~IsZero(d) /\ d.s = 1

Less(a, b) == IsNegative(Sub(a, b))

\* Math.abs
Abs(a) == IF IsNaN(a) THEN NaN ELSE [a EXCEPT !.s = 0]

Debtors(rem) == {i \in 1..Len(rem) : Less(rem[i], Neg(Tolerance))}

Creditors(rem) == {i \in 1..Len(rem) : Less(Tolerance, rem[i])}

LargestDebtor(rem) ==
  CHOOSE i \in Debtors(rem) :
    \A j \in Debtors(rem) : ~Less(rem[j], rem[i]) /\ (j < i => Less(rem[i], rem[j]))

LargestCreditor(rem) ==
  CHOOSE i \in Creditors(rem) :
    \A j \in Creditors(rem) : ~Less(rem[i], rem[j]) /\ (j < i => Less(rem[j], rem[i]))

\* Math.max(|debt|, credit): a transfer that overshoots the smaller side
TransferAmountMax(debt, credit) == IF Less(Abs(debt), credit) THEN credit ELSE Abs(debt)

\* Math.min(|debt|, credit)
TransferAmount(debt, credit) == IF Less(Abs(debt), credit) THEN Abs(debt) ELSE credit

Transfer(rem, d, c) ==
  [rem EXCEPT ![d] = Add(rem[d], TransferAmount(rem[d], rem[c])),
              ![c] = Sub(rem[c], TransferAmount(rem[d], rem[c]))]

Payment(s, rem, d, c) ==
  [fromId |-> s.players[d].id, fromName |-> s.players[d].name,
   toId   |-> s.players[c].id, toName   |-> s.players[c].name,
   amount |-> TransferAmount(rem[d], rem[c])]

RECURSIVE SettleLoop(_, _, _)
SettleLoop(s, rem, steps) ==
  IF Debtors(rem) = {} \/ Creditors(rem) = {}
  THEN [payments |-> <<>>, finished |-> TRUE]
  ELSE IF steps = 0 THEN [payments |-> <<>>, finished |-> FALSE]
  ELSE [SettleLoop(s, Transfer(rem, LargestDebtor(rem), LargestCreditor(rem)), steps - 1)
          EXCEPT !.payments =
            <<Payment(s, rem, LargestDebtor(rem), LargestCreditor(rem))>> \o @]

\* the balances in roster order
BalanceVector(s) ==
  [i \in 1..Len(s.players) |-> MapGet(calculatePlayerBalances(s), s.players[i].id)]

SettlementRun(s) == SettleLoop(s, BalanceVector(s), Len(s.players))

calculateSettlementPayments(s) == SettlementRun(s).payments

\* the ledger with its manual entries, on the roster of three
LedgerNext ==
  \/ Next
  \/ RecordManualEntry

LedgerSpec == Init /\ [][LedgerNext]_vars

\* manual entries and their edits on the roster of two, with one more call
ManualNext ==
  \/ Next
  \/ RecordManualEntry
  \/ UpdateManualEntry

ManualSpec == AppInit /\ [][ManualNext]_vars

(***************************************************************************)
(* Statistics (storage.ts 300-314, 363-425)                                *)
(***************************************************************************)
\* amount > 0 and amount < 0, both false of NaN
IsPositive(d) == ~IsNaN(d) /\ ~IsZero(d) /\ d.s = 0

\* the transactions the loops visit, in log order
RoundEndTransactions(s) ==
  LET IsRoundEnd(e) == e.type = "round_end"
  IN  AllTransactions(SelectSeq(s.events, IsRoundEnd))

\* counts.set(playerId, (counts.get(playerId) || 0) + 1) for each transaction
RECURSIVE CountEach(_, _)
CountEach(counts, txs) ==
  IF txs = <<>> THEN counts
  ELSE CountEach(MapSet(counts, Head(txs).playerId,
                        (IF MapHas(counts, Head(txs).playerId)
                         THEN MapGet(counts, Head(txs).playerId) ELSE 0) + 1),
                 Tail(txs))

getPlayerWins(s) ==
  LET Won(tx) == IsPositive(tx.amount)
  IN  CountEach([i \in 1..Len(s.players) |-> <<s.players[i].id, 0>>],
                SelectSeq(RoundEndTransactions(s), Won))

\* rounds played counted over every event of the log
getPlayerRoundsPlayedAnyEvent(s) ==
  CountEach([i \in 1..Len(s.players) |-> <<s.players[i].id, 0>>],
            AllTransactions(s.events))

getPlayerRoundsPlayed(s) ==
  CountEach([i \in 1..Len(s.players) |-> <<s.players[i].id, 0>>],
            RoundEndTransactions(s))

getPlayerLosses(s) ==
  LET Lost(tx) == IsNegative(tx.amount)
  IN  CountEach([i \in 1..Len(s.players) |-> <<s.players[i].id, 0>>],
                SelectSeq(RoundEndTransactions(s), Lost))

\* event.transactions.find((t) => t.playerId === playerId): None for undefined
FindTransaction(ev, playerId) ==
  IF \E j \in 1..Len(ev.transactions) : ev.transactions[j].playerId = playerId
  THEN Some(ev.transactions[CHOOSE j \in 1..Len(ev.transactions) :
              /\ ev.transactions[j].playerId = playerId
              /\ \A k \in 1..(j - 1) : ev.transactions[k].playerId # playerId])
  ELSE None

\* a progression with a point for every event of the log
RECURSIVE ProgressionOfEveryEvent(_, _, _)
ProgressionOfEveryEvent(evs, playerId, balance) ==
  IF evs = <<>> THEN <<>>
  ELSE LET next == IF FindTransaction(Head(evs), playerId) # None
                   THEN Add(balance, FindTransaction(Head(evs), playerId)[1].amount)
                   ELSE balance
       IN  <<[timestamp |-> Head(evs).timestamp, balance |-> next]>>
           \o ProgressionOfEveryEvent(Tail(evs), playerId, next)

\* the loop of getBalanceProgression from the events evs on, balance so far
RECURSIVE ProgressionFrom(_, _, _)
ProgressionFrom(evs, playerId, balance) ==
  IF evs = <<>> THEN <<>>
  ELSE IF FindTransaction(Head(evs), playerId) # None
       THEN <<[timestamp |-> Head(evs).timestamp,
               balance   |-> Add(balance, FindTransaction(Head(evs), playerId)[1].amount)]>>
            \o ProgressionFrom(Tail(evs), playerId,
                 Add(balance, FindTransaction(Head(evs), playerId)[1].amount))
       ELSE ProgressionFrom(Tail(evs), playerId, balance)

getBalanceProgression(s, playerId) == ProgressionFrom(s.events, playerId, Zero(0))

(***************************************************************************)
(* Properties.  last.session is the session a call received, session the   *)
(* one it returned; sums "over all values" are sums of real numbers.       *)
(***************************************************************************)
\* the exact sum of two numbers
RealAdd(a, b) == AddBy(a, b, Canon)

RECURSIVE RealSumValues(_)
RealSumValues(map) ==
  IF map = <<>> THEN Zero(0) ELSE RealAdd(Head(map)[2], RealSumValues(Tail(map)))

\* |x| < 2^-30, below a billionth
Negligible(x) == IsZero(x) \/ (x.k = "fin" /\ BBitLen(x.m) + x.e <= 0 - 30)

NewEvent == session.events[Len(session.events)]
PotBefore == calculateCurrentPot(last.session)
PotAfter == calculateCurrentPot(session)
TxIndexes(ev, playerId) ==
  {i \in 1..Len(ev.transactions) : ev.transactions[i].playerId = playerId}
InList(list, x) == \E i \in 1..Len(list) : list[i] = x
TotalPreseOf(preseMap) == SumPrese(Winners(preseMap))
Appended == Len(session.events) = Len(last.session.events) + 1

\* C1 (as stated): after recordRound with totalPrese > 0, every player with
\* prese > 0 outside the bestia list has exactly one transaction in the new
\* round_end event, of amount (prese / totalPrese) * potAtStart with
\* potAtStart the pot of the session before the call; a player with prese 0
\* outside the bestia list has none.
C1_WinnersAlwaysPaid ==
  (last.op = "recordRound" /\ TotalPreseOf(last.preseMap) > 0) =>
    /\ Appended
    /\ NewEvent.type = "round_end"
    /\ \A i \in 1..Len(last.preseMap) :
         LET playerId == last.preseMap[i][1]
             prese    == last.preseMap[i][2]
         IN  ~InList(last.bestiaPlayerIds, playerId) =>
               IF prese > 0
               THEN /\ Cardinality(TxIndexes(NewEvent, playerId)) = 1
                    /\ \A j \in TxIndexes(NewEvent, playerId) :
                         NewEvent.transactions[j].amount =
                           Mul(Div(FromInt(prese),
                                   FromInt(TotalPreseOf(last.preseMap))), PotBefore)
               ELSE TxIndexes(NewEvent, playerId) = {}

\* C1 (amended): the same, for a pot before the call that is not 0; when the
\* pot before the call is 0 every share is 0 and the winners have no
\* transaction either.
C1_WinnerShares ==
  (last.op = "recordRound" /\ TotalPreseOf(last.preseMap) > 0) =>
    /\ Appended
    /\ NewEvent.type = "round_end"
    /\ \A i \in 1..Len(last.preseMap) :
         LET playerId == last.preseMap[i][1]
             prese    == last.preseMap[i][2]
         IN  ~InList(last.bestiaPlayerIds, playerId) =>
               IF prese > 0 /\ ~IsZero(PotBefore)
               THEN /\ Cardinality(TxIndexes(NewEvent, playerId)) = 1
                    /\ \A j \in TxIndexes(NewEvent, playerId) :
                         NewEvent.transactions[j].amount =
                           Mul(Div(FromInt(prese),
                                   FromInt(TotalPreseOf(last.preseMap))), PotBefore)
               ELSE TxIndexes(NewEvent, playerId) = {}

\* a round with two winners and a pot to share has been recorded
C1_Witness ==
  /\ last.op = "recordRound"
  /\ Len(Winners(last.preseMap)) = 2
  /\ ~IsZero(PotBefore)
  /\ Len(NewEvent.transactions) = 2

\* C2: after recordRound with a non-empty bestia list, the amount recorded
\* for every player of the list is -potAtStart, the whole pot before the
\* call, however many players the list has (no entry stands for 0).
C2_BestiaPayFullPot ==
  (last.op = "recordRound" /\ Len(last.bestiaPlayerIds) > 0) =>
    \A k \in 1..Len(last.bestiaPlayerIds) :
      LET txs == TxIndexes(NewEvent, last.bestiaPlayerIds[k])
      IN  /\ Cardinality(txs) = (IF IsZero(PotBefore) THEN 0 ELSE 1)
          /\ \A j \in txs : NewEvent.transactions[j].amount = Neg(PotBefore)

\* two players went bestia on a pot that is not empty
C2_Witness ==
  /\ last.op = "recordRound"
  /\ Len(last.bestiaPlayerIds) = 2
  /\ TotalPreseOf(last.preseMap) > 0
  /\ ~IsZero(PotBefore)
  /\ Len(NewEvent.transactions) = 3

NoBestiaRound(evs) ==
  \A i \in 1..Len(evs) :
    evs[i].type = "round_end" => evs[i].metadata.bestiaPlayers = Some(<<>>)

C4_PotZeroAfterRound ==
  (/\ last.op = "recordRound"
   /\ last.bestiaPlayerIds = <<>>
   /\ TotalPreseOf(last.preseMap) > 0) => IsZero(PotAfter)

\* C5: after recordRound with k >= 1 bestia players and at least one winner
\* the pot is k times the pot before the round.
C5_PotAfterBestia ==
  (/\ last.op = "recordRound"
   /\ Len(last.bestiaPlayerIds) >= 1
   /\ TotalPreseOf(last.preseMap) > 0) =>
    StrictEq(PotAfter, Mul(FromInt(Len(last.bestiaPlayerIds)), PotBefore))

\* two players went bestia, a third won, and the pot was not empty
C5_Witness ==
  /\ last.op = "recordRound"
  /\ Len(last.bestiaPlayerIds) = 2
  /\ TotalPreseOf(last.preseMap) > 0
  /\ ~IsZero(PotBefore)

\* C6 (as stated): after recordRound with no player having prese > 0, the
\* new round_end event carries NaN amounts.
C6_NaNWithoutWinners ==
  (last.op = "recordRound" /\ TotalPreseOf(last.preseMap) = 0) =>
    \E j \in 1..Len(NewEvent.transactions) : IsNaN(NewEvent.transactions[j].amount)

\* C6 (amended): after recordRound with no player having prese > 0, no share
\* is computed: no amount of the new round_end event is NaN, no player is
\* credited, and the event holds exactly the debits of the bestia players
\* (none when the pot before the call is 0).
C6_NoShareWithoutWinners ==
  (last.op = "recordRound" /\ TotalPreseOf(last.preseMap) = 0) =>
    /\ Appended
    /\ NewEvent.type = "round_end"
    /\ \A j \in 1..Len(NewEvent.transactions) :
         /\ ~IsNaN(NewEvent.transactions[j].amount)
         /\ NewEvent.transactions[j].amount = Neg(PotBefore)
         /\ InList(last.bestiaPlayerIds, NewEvent.transactions[j].playerId)
    /\ Len(NewEvent.transactions) =
         (IF IsZero(PotBefore) THEN 0 ELSE Len(last.bestiaPlayerIds))
    /\ ~IsNaN(PotAfter)
    /\ \A i \in 1..Len(calculatePlayerBalances(session)) :
         ~IsNaN(calculatePlayerBalances(session)[i][2])

\* a round in which nobody took a presa was recorded on a pot that is not
\* empty, with one player bestia
C6_Witness ==
  /\ last.op = "recordRound"
  /\ TotalPreseOf(last.preseMap) = 0
  /\ Len(last.preseMap) = 3
  /\ Len(last.bestiaPlayerIds) = 1
  /\ ~IsZero(PotBefore)
  /\ Len(NewEvent.transactions) = 1

KnownId(s, playerId) == \E i \in 1..Len(s.players) : s.players[i].id = playerId

\* C7: recordDealerSelection with an id that matches no player returns the
\* session it received, equal in every field (events, currentDealerIndex,
\* players, piatto, updatedAt), and writes nothing to storage.
C7_UnknownDealerIsNoOp ==
  (last.op = "recordDealerSelection" /\ ~KnownId(last.session, last.dealerPlayerId)) =>
    /\ session = last.session
    /\ saves = last.saves
    /\ stored = Some(JsonSession(last.session))

\* an unknown id was given for a session that already has events
C7_Witness ==
  /\ last.op = "recordDealerSelection"
  /\ last.dealerPlayerId = UnknownId
  /\ Len(last.session.events) > 0
  /\ Len(session.events) = Len(last.session.events)

\* C8: recordDealerSelection with the id of a player of the roster sets
\* currentDealerIndex to the position of that player and appends exactly one
\* dealer_pay event with the single transaction {dealerPlayerId, -piatto} and
\* metadata.dealerPlayerId the id; the pot grows by exactly piatto.
C8_DealerPaysAnte ==
  (last.op = "recordDealerSelection" /\ KnownId(last.session, last.dealerPlayerId)) =>
    /\ session.currentDealerIndex \in 0..(Len(session.players) - 1)
    /\ session.players[session.currentDealerIndex + 1].id = last.dealerPlayerId
    /\ Appended
    /\ SubSeq(session.events, 1, Len(last.session.events)) = last.session.events
    /\ NewEvent.type = "dealer_pay"
    /\ NewEvent.transactions =
         <<[playerId |-> last.dealerPlayerId, amount |-> Neg(last.session.piatto)]>>
    /\ NewEvent.metadata.dealerPlayerId = Some(last.dealerPlayerId)
    /\ StrictEq(PotAfter, Add(PotBefore, last.session.piatto))

\* the third player was made dealer when the pot already held money
C8_Witness ==
  /\ last.op = "recordDealerSelection"
  /\ last.dealerPlayerId = "P3"
  /\ session.currentDealerIndex = 2
  /\ ~IsZero(PotBefore)
  /\ Len(session.events) = 2

\* C9: recordRound and recordGiroChiuso move the dealer pointer one position
\* on, modulo the size of the roster, and the event they append names as
\* metadata.dealerPlayerId the player the pointer was on before the call.
C9_DealerRotation ==
  (last.op \in {"recordRound", "recordGiroChiuso"}) =>
    /\ session.currentDealerIndex =
         (last.session.currentDealerIndex + 1) % Len(last.session.players)
    /\ Appended
    /\ NewEvent.metadata.dealerPlayerId =
         Some(last.session.players[last.session.currentDealerIndex + 1].id)

\* the pointer wrapped from the last player to the first
C9_Witness ==
  /\ last.op \in {"recordRound", "recordGiroChiuso"}
  /\ last.session.currentDealerIndex = Len(last.session.players) - 1
  /\ session.currentDealerIndex = 0
  /\ NewEvent.metadata.dealerPlayerId = Some("P3")

\* C10: recordGiroChiuso appends one giro_chiuso event that holds exactly one
\* transaction of amount -piatto for every player of the roster, active or
\* not, and the pot grows by players.length * piatto.
C10_GiroChiusoDebitsAll ==
  (last.op = "recordGiroChiuso") =>
    /\ Appended
    /\ SubSeq(session.events, 1, Len(last.session.events)) = last.session.events
    /\ NewEvent.type = "giro_chiuso"
    /\ Len(NewEvent.transactions) = Len(last.session.players)
    /\ \A i \in 1..Len(last.session.players) :
         /\ Cardinality(TxIndexes(NewEvent, last.session.players[i].id)) = 1
         /\ \A j \in TxIndexes(NewEvent, last.session.players[i].id) :
              NewEvent.transactions[j].amount = Neg(last.session.piatto)
    /\ StrictEq(PotAfter,
                Add(PotBefore, Mul(FromInt(Len(last.session.players)),
                                   last.session.piatto)))

\* a giro chiuso was recorded while a player was inactive
C10_Witness ==
  /\ last.op = "recordGiroChiuso"
  /\ \E i \in 1..Len(last.session.players) : ~last.session.players[i].isActive
  /\ Len(NewEvent.transactions) = 3


\* the transactions recordRound would write for a player who takes every
\* presa and is in the bestia list as well
WinnerAndBestiaTransactions(s, playerId) ==
  RoundTransactions(RoundPayouts(s, <<<<playerId, TotalPrese>>>>, <<playerId>>,
                                 calculateCurrentPot(s)))

\* C11: a round_end event appended by recordRound holds no transaction of
\* amount 0 and at most one transaction per player; when the pot before the
\* round is 0 it holds no transaction at all; and a player whose winning
\* share cancels the bestia debit (every presa taken, and bestia) gets no
\* entry in the transactions recordRound builds.
C11_NoZeroAmountTransaction ==
  /\ last.op = "recordRound" =>
       /\ NewEvent.type = "round_end"
       /\ \A i \in 1..Len(NewEvent.transactions) :
            ~StrictEq(NewEvent.transactions[i].amount, Zero(0))
       /\ \A i \in 1..Len(session.players) :
            Cardinality(TxIndexes(NewEvent, session.players[i].id)) <= 1
       /\ IsZero(PotBefore) => NewEvent.transactions = <<>>
  /\ \A i \in 1..Len(session.players) :
       WinnerAndBestiaTransactions(session, session.players[i].id) = <<>>

\* a round recorded on a pot that is not empty, in which a player of the
\* prese map is left without a transaction, and after which the pot is not
\* empty either
C11_Witness ==
  /\ last.op = "recordRound"
  /\ ~IsZero(PotBefore)
  /\ ~IsZero(PotAfter)
  /\ Len(NewEvent.transactions) > 0
  /\ \E i \in 1..Len(last.preseMap) :
       TxIndexes(NewEvent, last.preseMap[i][1]) = {}


DealerPayIndexes(s) == {i \in 1..Len(s.events) : s.events[i].type = "dealer_pay"}
HighestIndex(S) == CHOOSE i \in S : \A j \in S : j <= i
PositionOf(s, playerId) == CHOOSE i \in 1..Len(s.players) : s.players[i].id = playerId

\* C12: getCurrentDealerId is metadata.dealerPlayerId of the dealer_pay event
\* with the highest index in the log, and players[0].id when the log has no
\* dealer_pay event; a round_end or giro_chiuso event appended after the
\* last dealer_pay leaves the result as it was.
C12_CurrentDealerFromLog ==
  /\ getCurrentDealerId(session) =
       IF DealerPayIndexes(session) = {} THEN session.players[1].id
       ELSE session.events[HighestIndex(DealerPayIndexes(session))]
              .metadata.dealerPlayerId[1]
  /\ last.op \in {"recordRound", "recordGiroChiuso"} =>
       getCurrentDealerId(session) = getCurrentDealerId(last.session)

\* two dealer_pay events of different dealers and a later event of another
\* type in the log
C12_Witness ==
  /\ Len(session.events) = 3
  /\ session.events[1].type = "dealer_pay"
  /\ session.events[2].type = "dealer_pay"
  /\ session.events[3].type # "dealer_pay"
  /\ session.events[1].metadata.dealerPlayerId # session.events[2].metadata.dealerPlayerId
  /\ getCurrentDealerId(session) = session.events[2].metadata.dealerPlayerId[1]

\* C13: getNextDealerId is the player at the position after the current
\* dealer's (getCurrentDealerId) in session.players, the first player after
\* the last one, whether that player is active or not.
C13_NextDealerByPosition ==
  getNextDealerId(session) =
    session.players[(PositionOf(session, getCurrentDealerId(session))
                       % Len(session.players)) + 1].id

\* the dealer is the last player of the roster and the first player is
\* inactive: the next dealer is that inactive first player
C13_Witness ==
  /\ getCurrentDealerId(session) = session.players[Len(session.players)].id
  /\ ~session.players[1].isActive
  /\ \E i \in 2..Len(session.players) : session.players[i].isActive
  /\ getNextDealerId(session) = session.players[1].id


\* C14: in every state of a session, whatever the calls made on it (record
\* operations, deletion of events, added players, status changes, reorders
\* of the roster), 0 <= currentDealerIndex < players.length.
C14_DealerIndexInRange ==
  /\ 0 <= session.currentDealerIndex
  /\ session.currentDealerIndex < Len(session.players)

\* a rotation from the last position of a roster that has grown
C14_Witness ==
  /\ last.op \in {"recordRound", "recordGiroChiuso"}
  /\ Len(session.players) > Len(TwoPlayerNames)
  /\ last.session.currentDealerIndex = Len(session.players) - 1
  /\ session.currentDealerIndex = 0


\* the call deleted the latest dealer_pay event of the log it received
DeletedLatestDealerPay ==
  /\ last.op = "deleteEvent"
  /\ DealerPayIndexes(last.session) # {}
  /\ last.session.events[HighestIndex(DealerPayIndexes(last.session))].id = last.arg

\* C15: the pointer and the log can name different dealers.  Deleting the
\* latest dealer_pay event leaves currentDealerIndex where it was, so when
\* the two agreed before the deletion and the remaining log names another
\* dealer, players[currentDealerIndex].id differs from getCurrentDealerId
\* right after it.
C15_DealerDivergence ==
  (/\ DeletedLatestDealerPay
   /\ DealerAtPointer(last.session) = getCurrentDealerId(last.session)
   /\ getCurrentDealerId(session) # getCurrentDealerId(last.session))
  => DealerAtPointer(session) # getCurrentDealerId(session)

\* the state right after such a deletion, the two dealers different
C15_Witness ==
  /\ DeletedLatestDealerPay
  /\ DealerAtPointer(last.session) = getCurrentDealerId(last.session)
  /\ DealerAtPointer(session) # getCurrentDealerId(session)


\* the positions of the events of the received log that the deletion keeps
KeptIndexes == {i \in 1..Len(last.session.events) : last.session.events[i].id # last.arg}
\* the number of kept events up to position i of the received log
RankOfKept(i) == Cardinality({j \in KeptIndexes : j <= i})

\* C16: deleting an event by id removes the events with that id, of any
\* type, and no other: every remaining event is in the log after the call,
\* in the same relative order; currentDealerIndex, players and piatto are
\* unchanged; getCurrentDealerId is then the dealer of the latest dealer_pay
\* event that remains, players[0].id if none remains; pot and balances,
\* which are computed from the log alone, are those of the remaining log.
C16_DeleteEventFrame ==
  last.op = "deleteEvent" =>
    /\ Len(session.events) = Cardinality(KeptIndexes)
    /\ \A i \in KeptIndexes : session.events[RankOfKept(i)] = last.session.events[i]
    /\ session.currentDealerIndex = last.session.currentDealerIndex
    /\ session.players = last.session.players
    /\ session.piatto = last.session.piatto
    /\ getCurrentDealerId(session) =
         IF \E i \in KeptIndexes : last.session.events[i].type = "dealer_pay"
         THEN last.session.events[
                HighestIndex({i \in KeptIndexes :
                                last.session.events[i].type = "dealer_pay"})]
                .metadata.dealerPlayerId[1]
         ELSE session.players[1].id

\* the middle event of a log of three is deleted; events of two types remain
C16_Witness ==
  /\ last.op = "deleteEvent"
  /\ Len(last.session.events) = 3
  /\ last.session.events[2].id = last.arg
  /\ Len(session.events) = 2
  /\ session.events[1].type # session.events[2].type
  /\ last.session.events[2].type = "round_end"


\* the last call was a record operation that went through
Recorded ==
  \/ last.op \in {"recordRound", "recordGiroChiuso"}
  \/ last.op = "recordDealerSelection" /\ DealerFound(last.session, last.dealerPlayerId)

\* C17: a recordDealerSelection that finds its player, a recordRound and a
\* recordGiroChiuso each make the log one event longer, the new event being
\* the last one, and leave every event recorded before (id, type, timestamp,
\* transactions, metadata) at its position, unchanged.
C17_AppendOnly ==
  Recorded =>
    /\ Len(session.events) = Len(last.session.events) + 1
    /\ \A i \in 1..Len(last.session.events) : session.events[i] = last.session.events[i]

\* a record operation on a log that already holds two events
C17_Witness ==
  /\ Recorded
  /\ Len(last.session.events) = 2
  /\ Len(session.events) = 3
  /\ last.op = "recordGiroChiuso"


Orders(n) == {g \in [1..n -> 1..n] : \A i, j \in 1..n : g[i] = g[j] => i = j}
Reordered(s, g) == [s EXCEPT !.events = [i \in 1..Len(s.events) |-> s.events[g[i]]]]
\* the amounts of a player's transactions, in log order
AmountsOf(s, playerId) ==
  LET IsOf(tx) == tx.playerId = playerId
      txs == SelectSeq(AllTransactions(s.events), IsOf)
  IN  [i \in 1..Len(txs) |-> txs[i].amount]
RECURSIVE SumInOrder(_, _)
SumInOrder(amounts, acc) ==
  IF amounts = <<>> THEN acc ELSE SumInOrder(Tail(amounts), Add(acc, Head(amounts)))

\* C18 (as stated): calculatePlayerBalances has one entry per player of the
\* roster, in roster order, each the sum of the amounts of the player's
\* transactions over the whole log (0 when there is none), and it gives the
\* same balances for every permutation of session.events.
C18_BalancesOrderIndependent ==
  /\ Len(calculatePlayerBalances(session)) = Len(session.players)
  /\ \A i \in 1..Len(session.players) :
       /\ calculatePlayerBalances(session)[i][1] = session.players[i].id
       /\ calculatePlayerBalances(session)[i][2] =
            SumInOrder(AmountsOf(session, session.players[i].id), Zero(0))
  /\ \A g \in Orders(Len(session.events)) :
       calculatePlayerBalances(Reordered(session, g)) = calculatePlayerBalances(session)


\* equality of two sessions field by field, numbers compared with ===
SameTransactions(a, b) ==
  /\ Len(a) = Len(b)
  /\ \A i \in 1..Len(a) :
       /\ a[i].playerId = b[i].playerId
       /\ StrictEq(a[i].amount, b[i].amount)
SameEvents(a, b) ==
  /\ Len(a) = Len(b)
  /\ \A i \in 1..Len(a) :
       /\ a[i].id = b[i].id
       /\ a[i].type = b[i].type
       /\ a[i].timestamp = b[i].timestamp
       /\ SameTransactions(a[i].transactions, b[i].transactions)
       /\ a[i].metadata = b[i].metadata
SamePlayers(a, b) ==
  /\ Len(a) = Len(b)
  /\ \A i \in 1..Len(a) :
       /\ a[i].id = b[i].id
       /\ a[i].name = b[i].name
       /\ a[i].isActive = b[i].isActive
       /\ StrictEq(a[i].balance, b[i].balance)
SameSession(a, b) ==
  /\ a.id = b.id
  /\ StrictEq(a.piatto, b.piatto)
  /\ SamePlayers(a.players, b.players)
  /\ a.currentDealerIndex = b.currentDealerIndex
  /\ SameEvents(a.events, b.events)
  /\ a.createdAt = b.createdAt
  /\ a.updatedAt = b.updatedAt

\* the last call was one that writes the session
Mutated == last.op # "createNewSession" /\ saves = last.saves + 1

\* C20: every call that changes the session (a recordDealerSelection that
\* finds its player, recordRound, recordGiroChiuso, updatePiatto,
\* updatePlayerOrder, addPlayer, togglePlayerActive, the deletion of an
\* event) has written it before it returns: getSession read right after the
\* call gives a session equal to the one in memory in every field, the
\* prese of every round back as a mapping.
C20_PersistedAfterMutation ==
  /\ last.op \in {"recordRound", "recordGiroChiuso", "updatePiatto", "updatePlayerOrder",
                  "addPlayer", "togglePlayerActive", "deleteEvent"} => Mutated
  /\ (last.op = "recordDealerSelection" /\ DealerFound(last.session, last.dealerPlayerId))
       => Mutated
  /\ Mutated =>
       /\ getSession(stored) # None
       /\ SameSession(getSession(stored)[1], session)

\* a session with a round whose prese were written and read back, saved
\* again by a settings change
C20_Witness ==
  /\ Mutated
  /\ last.op = "updatePiatto"
  /\ \E i \in 1..Len(session.events) :
       /\ session.events[i].type = "round_end"
       /\ Len(session.events[i].metadata.prese[1]) > 1
       /\ getSession(stored)[1].events[i].metadata.prese = session.events[i].metadata.prese


\* the numbers of compressed bytes tried: one for each padding
GzipLengths == 20..22

\* the session with one more event, which has no metadata
WithBareEvent(s) ==
  [s EXCEPT !.events =
     Append(s.events, [id |-> 0, type |-> "manual_entry", timestamp |-> now,
                       transactions |-> <<>>, metadata |-> NoMetadata])]

RoundTrips(s) ==
  \A n \in GzipLengths :
    /\ decodeGameFromSharing(encodeGameForSharing(s, n)) # None
    /\ SameSession(decodeGameFromSharing(encodeGameForSharing(s, n))[1], s)

\* C19: decodeGameFromSharing(encodeGameForSharing(session)) equals session
\* in every field, the prese mapping of every round_end event included (same
\* keys in the same order, same counts, an empty mapping staying an empty
\* mapping), for logs of no, one and several events, with events without
\* prese and events without metadata.
C19_SharingRoundTrip ==
  /\ RoundTrips(session)
  /\ RoundTrips(WithBareEvent(session))

\* a round recorded with no active player, its prese mapping empty, read
\* back as an empty mapping
C19_Witness ==
  /\ Len(session.events) > 0
  /\ NewEvent.type = "round_end"
  /\ NewEvent.metadata.prese = Some(<<>>)
  /\ decodeGameFromSharing(encodeGameForSharing(session, 21))[1].events[Len(session.events)]
       .metadata.prese = Some(<<>>)

(***************************************************************************)
(* The round form (game-input.ts).  The form holds one selection for every *)
(* player; submitResult emits a game-result, which game-actions passes on  *)
(* as round-recorded (game-actions.ts 184-191).  The app records the round *)
(* at once (app.ts 59-66) or, in its later version, first asks for the     *)
(* amounts to review (part_001 188-206).                                   *)
(***************************************************************************)
FormChoices(s) == [ActiveIndexes(s) -> Selections]

\* a form that emits whatever is selected
submitResultUnchecked(s, choice) ==
  Some([prese |-> PreseMapOf(s, choice, 1), bestia |-> BestiaListOf(s, choice, 1)])

\* submitResult (game-input.ts 97-139): the detail of the game-result event,
\* None when "if (totalPrese !== 3) return" is taken
submitResult(s, choice) ==
  IF SumChoice(choice, ActiveIndexes(s)) # 3 THEN None
  ELSE Some([prese |-> PreseMapOf(s, choice, 1), bestia |-> BestiaListOf(s, choice, 1)])

\* a preview that forgets what the bestia players pay
calculatePayoutsWinnersOnly(s, choice, potAmount) ==
  [i \in 1..Len(s.players) |->
     <<s.players[i].id,
       IF i \in ActiveIndexes(s) /\ PreseOf(choice[i]) > 0
       THEN Share(PreseOf(choice[i]), TotalPrese, potAmount)
       ELSE Zero(0)>>]

\* calculatePayouts (game-input.ts 40-95): every player starts at 0, a winner
\* is set to (playerPrese / TOTAL_PRESE) * potAmount, a bestia player to
\* -potAmount
calculatePayouts(s, choice, potAmount) ==
  [i \in 1..Len(s.players) |->
     <<s.players[i].id,
       IF i \in ActiveIndexes(s) /\ choice[i] = "bestia" THEN Neg(potAmount)
       ELSE IF i \in ActiveIndexes(s) /\ PreseOf(choice[i]) > 0
       THEN Share(PreseOf(choice[i]), TotalPrese, potAmount)
       ELSE Zero(0)>>]

\* calculateRoundPayouts: the payout step of recordRound and nothing else
calculateRoundPayouts(s, preseMap, bestiaPlayerIds) ==
  RoundPayouts(s, preseMap, bestiaPlayerIds, calculateCurrentPot(s))

FormCall(op, choice, calculatedAmounts, formPayouts) ==
  [op |-> op, choice |-> choice, calculatedAmounts |-> calculatedAmounts,
   formPayouts |-> formPayouts, session |-> session, saves |-> saves,
   stored |-> stored]

\* the submit button, with the app that records at once (app.ts 59-66)
SubmitResult ==
  /\ UNCHANGED ui
  /\ saves <= budget
  /\ UNCHANGED budget
  /\ \E choice \in FormChoices(session) :
       /\ last' = FormCall("submitResult", choice, <<>>, <<>>)
       /\ IF submitResult(session, choice) = None
          THEN UNCHANGED <<session, stored, saves, now, nextId, storage, other>>
          ELSE /\ saveSession(recordRound(session,
                                          submitResult(session, choice)[1].prese,
                                          submitResult(session, choice)[1].bestia))
               /\ nextId' = nextId + 1

\* the submit button, with the app that asks for a review (part_001 188-206);
\* the amounts shown are kept with the call
ReviewResult ==
  /\ UNCHANGED ui
  /\ saves <= budget
  /\ \E choice \in FormChoices(session) :
       /\ submitResult(session, choice) # None
       /\ last' = FormCall("calculateRoundPayouts", choice,
                           calculateRoundPayouts(session,
                                                 submitResult(session, choice)[1].prese,
                                                 submitResult(session, choice)[1].bestia),
                           calculatePayouts(session, choice, calculateCurrentPot(session)))
  /\ UNCHANGED <<session, stored, saves, now, nextId, budget, storage, other>>

FormNext ==
  \/ RecordDealerSelection
  \/ RecordGiroChiuso
  \/ TogglePlayerActive
  \/ SubmitResult
  \/ ReviewResult

FormSpec == Init /\ [][FormNext]_vars

(***************************************************************************)
(* Claims on the environment of the app (EnvSpec)                          *)
(***************************************************************************)
\* C21: decodeGameFromSharing returns null for every payload that is not the
\* URL-safe base64 of a gzip of JSON, and when the share parameter decodes
\* to null the import handler saves nothing: the stored text, the session
\* of the tab and the number of saves are what they were.
C21_InvalidShareIsNoOp ==
  /\ \A payload \in InvalidPayloads : decodeGameFromSharing(payload) = None
  /\ (last.op = "handleSharedGame" /\ decodeGameFromSharing(last.arg) = None)
       => /\ stored = last.stored
          /\ session = last.session
          /\ other = last.other
          /\ saves = last.saves

C21_Witness ==
  /\ last.op = "handleSharedGame"
  /\ decodeGameFromSharing(last.arg) = None
  /\ Len(last.session.events) > 0
  /\ stored = last.stored

\* C22: storage failures never surface.  While localStorage throws, or holds
\* a text that is not JSON, getSession returns null, and a tab that loads
\* finds no session.  While the write throws, a record operation still
\* returns: the session in memory has its new event as its last one, the
\* save is counted, and the stored text is what it was before.
C22_StorageFailuresSwallowed ==
  [][ /\ (storage = "throws" \/ stored = Some(Unparsable))
          => getStoredSession(storage, stored) = None
      /\ (last'.op = "loadSession" /\ (storage = "throws" \/ stored = Some(Unparsable)))
          => other' = None
      /\ (storage = "throws" /\ last'.op \in {"recordRound", "recordGiroChiuso"})
          => /\ stored' = stored
             /\ saves' = saves + 1
             /\ Len(session'.events) = Len(session.events) + 1
             /\ SubSeq(session'.events, 1, Len(session.events)) = session.events
             /\ session'.events[Len(session'.events)].id = nextId
      /\ (storage = "throws" /\ last'.op = "recordDealerSelection")
          => /\ stored' = stored
             /\ (DealerFound(session, last'.dealerPlayerId)
                   => /\ saves' = saves + 1
                      /\ Len(session'.events) = Len(session.events) + 1
                      /\ session'.events[Len(session'.events)].type = "dealer_pay")
    ]_vars

C22_Witness ==
  /\ storage = "throws"
  /\ stored # Some(Unparsable)
  /\ other = None
  /\ last.op = "recordRound"
  /\ saves = last.saves + 1
  /\ Len(session.events) = Len(last.session.events) + 1
  /\ Len(getSession(stored)[1].events) = Len(last.session.events)

\* the ids of the events of a log
EventIds(events) == { events[i].id : i \in 1..Len(events) }

\* the tab in front has just recorded an event and written its session
WroteEvent ==
  /\ last.op \in {"recordRound", "recordGiroChiuso", "recordDealerSelection"}
  /\ storage = "ok"
  /\ saves = last.saves + 1

\* C23: with two tabs that loaded the same stored session, a lost update is
\* reachable.  Each tab appends to its own copy and writes the whole
\* session: after a write the stored log is the log of the writing tab, so
\* an event that only the other tab holds is not in it.
C23_LostUpdate ==
  (WroteEvent /\ other # None)
    => /\ EventIds(getSession(stored)[1].events) = EventIds(session.events)
       /\ \A id \in EventIds(other[1].events) \ EventIds(session.events) :
            id \notin EventIds(getSession(stored)[1].events)

\* both tabs loaded the empty log, each recorded one event, and the stored
\* log holds one event only
C23_Witness ==
  /\ WroteEvent
  /\ other # None
  /\ Len(session.events) = 1
  /\ Len(other[1].events) = 1
  /\ session.events[1].id # other[1].events[1].id
  /\ Len(getSession(stored)[1].events) = 1
  /\ getSession(stored)[1].events[1].id = session.events[1].id

(***************************************************************************)
(* Claims on manual entries and on the settlement (LedgerSpec)             *)
(***************************************************************************)
\* the payments proposed for the session
Payments == calculateSettlementPayments(session)

\* the balances once the payments are made
RECURSIVE AfterPayments(_, _, _)
AfterPayments(s, rem, payments) ==
  IF payments = <<>> THEN rem
  ELSE AfterPayments(s,
         [i \in 1..Len(rem) |->
            IF s.players[i].id = Head(payments).fromId
            THEN Add(rem[i], Head(payments).amount)
            ELSE IF s.players[i].id = Head(payments).toId
            THEN Sub(rem[i], Head(payments).amount)
            ELSE rem[i]],
         Tail(payments))

Settled == AfterPayments(session, BalanceVector(session), Payments)

RECURSIVE TotalTransferred(_)
TotalTransferred(payments) ==
  IF payments = <<>> THEN Zero(0)
  ELSE Add(Head(payments).amount, TotalTransferred(Tail(payments)))

\* the sum of the balances above zero (sign 0) or of those below (sign 1)
RECURSIVE SumOfSign(_, _)
SumOfSign(rem, sign) ==
  IF rem = <<>> THEN Zero(0)
  ELSE IF ~IsNaN(Head(rem)) /\ ~IsZero(Head(rem)) /\ Head(rem).s = sign
  THEN Add(Abs(Head(rem)), SumOfSign(Tail(rem), sign))
  ELSE SumOfSign(Tail(rem), sign)

Smaller(a, b) == IF Less(a, b) THEN a ELSE b

\* |x| <= bound
Within(x, bound) == ~IsNaN(x) /\ ~Less(bound, Abs(x))

AllWithin(rem, bound) == \A i \in 1..Len(rem) : Within(rem[i], bound)

\* as many tolerances as there are players
Slack == Mul(FromInt(Len(session.players)), Tolerance)

PotIsEmpty == Within(calculateCurrentPot(session), Tolerance)

NoMatchLeft(rem) == Debtors(rem) = {} \/ Creditors(rem) = {}

FromDebtorToCreditor(s, balances, run) ==
  /\ run.finished
  /\ Len(run.payments) <= Len(s.players) - 1
  /\ \A k \in 1..Len(run.payments) :
       /\ Less(Zero(0), run.payments[k].amount)
       /\ \E i \in 1..Len(s.players) :
            /\ s.players[i].id = run.payments[k].fromId
            /\ Less(balances[i], Zero(0))
       /\ \E i \in 1..Len(s.players) :
            /\ s.players[i].id = run.payments[k].toId
            /\ Less(Zero(0), balances[i])

C27_ManualEntryFrame ==
  last.op = "recordManualEntry"
    => /\ Len(session.events) = Len(last.session.events) + 1
       /\ SubSeq(session.events, 1, Len(last.session.events)) = last.session.events
       /\ NewEvent.type = "manual_entry"
       /\ NewEvent.id = last.eventId
       /\ Len(NewEvent.transactions) = Len(last.amounts)
       /\ \A k \in 1..Len(last.amounts) :
            /\ NewEvent.transactions[k].playerId = last.amounts[k][1]
            /\ NewEvent.transactions[k].amount = last.amounts[k][2]
       /\ session.currentDealerIndex = last.session.currentDealerIndex
       /\ getCurrentDealerId(session) = getCurrentDealerId(last.session)

\* an entry with an amount of 0 whose amounts do not sum to zero, recorded
\* after a dealer was selected
C27_Witness ==
  /\ last.op = "recordManualEntry"
  /\ Len(session.events) = 2
  /\ session.events[1].type = "dealer_pay"
  /\ Len(NewEvent.transactions) = 3
  /\ \E k \in 1..3 : IsZero(NewEvent.transactions[k].amount)
  /\ ~IsZero(SumAmounts(NewEvent.transactions, Zero(0)))
  /\ getCurrentDealerId(session) = session.events[1].metadata.dealerPlayerId[1]

\* C28: updateManualEntry with the id of an event of the log replaces the
\* transactions and the metadata of that event and nothing else: the event
\* keeps its id, type, timestamp and position, every other event and every
\* other field of the session is unchanged.  With an id that no event has,
\* the session, the stored text and the number of saves are unchanged.
C28_UpdateManualEntryFrame ==
  last.op = "updateManualEntry"
    => IF HasEvent(last.session, last.eventId)
       THEN /\ Len(session.events) = Len(last.session.events)
            /\ \A i \in 1..Len(session.events) :
                 IF last.session.events[i].id = last.eventId
                 THEN session.events[i] =
                        [last.session.events[i] EXCEPT
                           !.transactions = ManualTransactions(last.amounts),
                           !.metadata = ManualEntryMetadata(last.description)]
                 ELSE session.events[i] = last.session.events[i]
            /\ [session EXCEPT !.events = <<>>, !.updatedAt = 0]
                 = [last.session EXCEPT !.events = <<>>, !.updatedAt = 0]
       ELSE /\ session = last.session
            /\ stored = last.stored
            /\ saves = last.saves

\* the first of two events is edited and the second is a different event
C28_Witness ==
  /\ last.op = "updateManualEntry"
  /\ Len(last.session.events) = 2
  /\ last.session.events[1].id = last.eventId
  /\ last.session.events[1].type = "manual_entry"
  /\ session.events[1].transactions # last.session.events[1].transactions
  /\ session.events[2].type = "round_end"

(***************************************************************************)
(* Claims on the round form (FormSpec)                                     *)
(***************************************************************************)
\* the amount of the transaction recordRound writes for the player, 0 if none
RECURSIVE RecordedAmount(_, _)
RecordedAmount(transactions, playerId) ==
  IF transactions = <<>> THEN Zero(0)
  ELSE IF Head(transactions).playerId = playerId THEN Head(transactions).amount
  ELSE RecordedAmount(Tail(transactions), playerId)

SamePayouts(s, payouts, transactions) ==
  /\ Len(payouts) = Len(s.players)
  /\ \A i \in 1..Len(s.players) :
       /\ payouts[i][1] = s.players[i].id
       /\ StrictEq(payouts[i][2], RecordedAmount(transactions, s.players[i].id))

\* C26: for every selection the form submits and the same pot, the amounts
\* previewed for each player, by calculateRoundPayouts and by the form's
\* calculatePayouts, are the amounts recordRound records for that player
\* (0 where it records no transaction), compared with ===; and the preview
\* leaves the session, the stored text and the number of saves as they were.
C26_PreviewIsRecordedPayout ==
  last.op = "calculateRoundPayouts"
    => /\ session = last.session
       /\ stored = last.stored
       /\ saves = last.saves
       /\ SamePayouts(session, last.calculatedAmounts,
                      RoundEvent(session, PreseMapOf(session, last.choice, 1),
                                 BestiaListOf(session, last.choice, 1)).transactions)
       /\ SamePayouts(session, last.formPayouts,
                      RoundEvent(session, PreseMapOf(session, last.choice, 1),
                                 BestiaListOf(session, last.choice, 1)).transactions)

\* a preview with a winner and a bestia player on a pot that is not empty
C26_Witness ==
  /\ last.op = "calculateRoundPayouts"
  /\ ~IsZero(calculateCurrentPot(session))
  /\ \E i \in ActiveIndexes(session) : last.choice[i] = "bestia"
  /\ \E i \in 1..Len(session.players) : IsNegative(last.formPayouts[i][2])
  /\ session = last.session

\* C30: the form emits a game-result only when the prese selected by the
\* active players total exactly 3.  With any other total nothing is
\* emitted and the ledger is not called: the session and the number of
\* saves stay as they were, and every round in the log has 3 prese in all.
C30_FormSubmitsOnlyThreePrese ==
  /\ \A choice \in FormChoices(session) :
       submitResult(session, choice) # None
         <=> SumChoice(choice, ActiveIndexes(session)) = 3
  /\ (last.op = "submitResult"
        /\ SumChoice(last.choice, ActiveIndexes(last.session)) # 3)
       => /\ session = last.session
          /\ stored = last.stored
          /\ saves = last.saves
  /\ \A i \in 1..Len(session.events) :
       session.events[i].type = "round_end"
         => SumPrese(session.events[i].metadata.prese[1]) = 3

\* a submit with bestia players and no prese, after a round was recorded
C30_Witness ==
  /\ last.op = "submitResult"
  /\ SumChoice(last.choice, ActiveIndexes(last.session)) = 0
  /\ \E i \in ActiveIndexes(last.session) : last.choice[i] = "bestia"
  /\ session = last.session
  /\ \E i \in 1..Len(session.events) : session.events[i].type = "round_end"

\* C29: session.piatto >= 0 in every reachable state: setup creates a
\* session only with piatto >= 0 and no later operation, updatePiatto from
\* the settings form included, makes it negative.
C29_PiattoNonNegative == ~IsNaN(session.piatto) /\ ~IsNegative(session.piatto)

\* the sum of the values of a map as a reduce over its entries computes it,
\* in doubles and in the order of the entries
RECURSIVE SumValues(_, _)
SumValues(map, acc) ==
  IF map = <<>> THEN acc ELSE SumValues(Tail(map), Add(acc, Head(map)[2]))

BalancesTotal(s) == SumValues(calculatePlayerBalances(s), Zero(0))

\* C31: in every reachable state the pot equals the negated sum of the
\* balances of all players, after any sequence of records, deletions,
\* reorders, added players and toggles.
C31_PotIsNegatedBalances ==
  StrictEq(calculateCurrentPot(session), Neg(BalancesTotal(session)))

\* the same identity up to the rounding of the additions
C31_PotNearNegatedBalances ==
  Negligible(RealAdd(RealSumValues(calculatePlayerBalances(session)),
                     calculateCurrentPot(session)))

RoundsHaveWinners(evs) ==
  \A i \in 1..Len(evs) :
    evs[i].type = "round_end" => SumPrese(evs[i].metadata.prese[1]) > 0

C33_DealerRepresentationsAgree ==
  (last.op = "recordDealerSelection"
     /\ DealerFound(last.session, last.dealerPlayerId)) =>
    /\ session.currentDealerIndex \in 0..(Len(session.players) - 1)
    /\ DealerAtPointer(session) = last.dealerPlayerId
    /\ getCurrentDealerId(session) = last.dealerPlayerId

\* a dealer was chosen who was neither the one of the pointer nor the one
\* of the log, in a session whose log already names another dealer
C33_Witness ==
  /\ last.op = "recordDealerSelection"
  /\ DealerFound(last.session, last.dealerPlayerId)
  /\ Len(last.session.events) > 0
  /\ LatestDealerPay(last.session.events, Len(last.session.events)) > 0
  /\ DealerAtPointer(last.session) # last.dealerPlayerId
  /\ getCurrentDealerId(last.session) # last.dealerPlayerId
  /\ Len(session.events) = Len(last.session.events) + 1

PlayerSet(s) == {s.players[i] : i \in 1..Len(s.players)}

\* C34: updatePlayerOrder with a permutation of the roster ids keeps the
\* set of players, the events, the pot and every balance, and the dealer
\* pointer stays on the same player.
C34_ReorderKeepsDealer ==
  last.op = "updatePlayerOrder" =>
    /\ PlayerSet(session) = PlayerSet(last.session)
    /\ Len(session.players) = Len(last.session.players)
    /\ session.events = last.session.events
    /\ StrictEq(calculateCurrentPot(session), calculateCurrentPot(last.session))
    /\ \A i \in 1..Len(session.players) :
         MapGet(calculatePlayerBalances(session), session.players[i].id) =
           MapGet(calculatePlayerBalances(last.session), session.players[i].id)
    /\ DealerAtPointer(session) = DealerAtPointer(last.session)

\* what the reorder does keep: players, events, pot, balances and the
\* numeric value of the dealer pointer
C34_ReorderKeepsLedger ==
  last.op = "updatePlayerOrder" =>
    /\ PlayerSet(session) = PlayerSet(last.session)
    /\ Len(session.players) = Len(last.session.players)
    /\ session.events = last.session.events
    /\ StrictEq(calculateCurrentPot(session), calculateCurrentPot(last.session))
    /\ \A i \in 1..Len(session.players) :
         MapGet(calculatePlayerBalances(session), session.players[i].id) =
           MapGet(calculatePlayerBalances(last.session), session.players[i].id)
    /\ session.currentDealerIndex = last.session.currentDealerIndex

\* the round_end events are as recordRound wrote them: each carries the
\* prese and the bestia list of its round (an edit replaces the metadata)
RoundsAsRecorded(s) ==
  \A i \in 1..Len(s.events) :
    s.events[i].type = "round_end" =>
      /\ s.events[i].metadata.prese # None
      /\ s.events[i].metadata.bestiaPlayers # None

\* C35: while every round_end event is one recordRound appended, for every
\* player wins + losses = rounds played, and appending a dealer_pay,
\* giro_chiuso or manual_entry event changes none of the three counts.
C35_WinsPlusLossesIsPlayed ==
  /\ RoundsAsRecorded(session) =>
       /\ \A i \in 1..Len(session.players) :
            MapGet(getPlayerWins(session), session.players[i].id)
              + MapGet(getPlayerLosses(session), session.players[i].id)
            = MapGet(getPlayerRoundsPlayed(session), session.players[i].id)
       /\ Len(getPlayerRoundsPlayed(session)) = Len(session.players)
  /\ (last.op \in {"recordDealerSelection", "recordGiroChiuso", "recordManualEntry"}) =>
       /\ getPlayerWins(session) = getPlayerWins(last.session)
       /\ getPlayerLosses(session) = getPlayerLosses(last.session)
       /\ getPlayerRoundsPlayed(session) = getPlayerRoundsPlayed(last.session)

\* a manual entry with amounts was appended after a round in which one
\* player won and another lost
C35_Witness ==
  /\ last.op = "recordManualEntry"
  /\ RoundsAsRecorded(session)
  /\ Len(session.events) = Len(last.session.events) + 1
  /\ Len(NewEvent.transactions) > 0
  /\ \E i, j \in 1..Len(session.players) :
       /\ MapGet(getPlayerWins(session), session.players[i].id) = 1
       /\ MapGet(getPlayerLosses(session), session.players[j].id) = 1
       /\ MapGet(getPlayerRoundsPlayed(session), session.players[j].id) = 1

\* the positions in the log of the events that hold a transaction of a player
EventsOf(s, playerId) ==
  {i \in 1..Len(s.events) : TxIndexes(s.events[i], playerId) # {}}

\* C36: for every player with a transaction, getBalanceProgression has one
\* point per event holding a transaction of the player, in log order, and
\* its last point carries the balance calculatePlayerBalances gives.
C36_ProgressionEndsAtBalance ==
  \A p \in 1..Len(session.players) :
    LET playerId == session.players[p].id
        points   == getBalanceProgression(session, playerId)
        evs      == EventsOf(session, playerId)
    IN  evs # {} =>
          /\ Len(points) = Cardinality(evs)
          /\ points[Len(points)].balance =
               MapGet(calculatePlayerBalances(session), playerId)
          /\ \A k \in 1..Len(points) :
               \E i \in evs :
                 /\ Cardinality({j \in evs : j <= i}) = k
                 /\ points[k].timestamp = session.events[i].timestamp

\* a player has transactions in the first and the third event of a log of
\* three and none in the second
C36_Witness ==
  /\ Len(session.events) = 3
  /\ \E p \in 1..Len(session.players) :
       /\ EventsOf(session, session.players[p].id) = {1, 3}
       /\ Len(getBalanceProgression(session, session.players[p].id)) = 2
       /\ ~IsZero(MapGet(calculatePlayerBalances(session), session.players[p].id))

(***************************************************************************)
(* The review of a round (part_001 188-206, 290-317; game-actions.ts       *)
(* 61-79, 158-182, 232-249).  The app keeps the submitted round in         *)
(* reviewingRoundResult and hands it to game-actions as the property       *)
(* reviewingResult, which holds the app's value as of the last render.     *)
(***************************************************************************)
ReviewCall(op, detail) ==
  [op |-> op, detail |-> detail, session |-> session, saves |-> saves,
   stored |-> stored, reviewingRoundResult |-> reviewingRoundResult]

\* recordRoundWithAmounts: recordRound with the amounts the caller supplies
RoundEventWithAmounts(s, prese, bestia, adjustedAmounts) ==
  [id           |-> nextId,
   type         |-> "round_end",
   timestamp    |-> now,
   transactions |-> RoundTransactions(adjustedAmounts),
   metadata     |-> [dealerPlayerId  |-> Some(DealerAtPointer(s)),
                     prese           |-> Some(prese),
                     bestiaPlayers   |-> Some(bestia)]]

recordRoundWithAmounts(s, prese, bestia, adjustedAmounts) ==
  [s EXCEPT !.events = Append(s.events,
                              RoundEventWithAmounts(s, prese, bestia, adjustedAmounts)),
            !.currentDealerIndex = Rotated(s)]

\* handleRoundRecorded (part_001 188-206)
handleRoundRecorded(prese, bestia) ==
  /\ reviewingRoundResult' =
       IF hasSession
       THEN Some([prese |-> prese, bestia |-> bestia,
                  calculatedAmounts |-> calculateRoundPayouts(session, prese, bestia)])
       ELSE reviewingRoundResult
  /\ UNCHANGED <<session, stored, saves, now, nextId, storage, other>>

\* a handler that records whenever the event arrives
handleRoundConfirmedUnguarded(prese, bestia, adjustedAmounts) ==
  /\ saveSession(recordRoundWithAmounts(session, prese, bestia, adjustedAmounts))
  /\ nextId' = nextId + 1
  /\ reviewingRoundResult' = None

\* handleRoundConfirmed (part_001 290-311)
handleRoundConfirmed(prese, bestia, adjustedAmounts) ==
  IF hasSession /\ reviewingRoundResult # None
  THEN /\ saveSession(recordRoundWithAmounts(session, prese, bestia, adjustedAmounts))
       /\ nextId' = nextId + 1
       /\ reviewingRoundResult' = None
  ELSE UNCHANGED <<session, stored, saves, now, nextId, storage, other,
                   reviewingRoundResult>>

\* handleReviewCancelled (part_001 313-316)
handleReviewCancelled ==
  /\ reviewingRoundResult' = None
  /\ UNCHANGED <<session, stored, saves, now, nextId, storage, other>>

\* the amounts of the review form when it is confirmed: as proposed, or with
\* the first one typed over (updateManualAmount, game-actions.ts 251-254)
Adjustments(calculatedAmounts) ==
  {calculatedAmounts,
   [i \in 1..Len(calculatedAmounts) |->
      IF i = 1 THEN <<calculatedAmounts[i][1], FromInt(1)>> ELSE calculatedAmounts[i]]}

\* handleRecordResult (game-actions.ts 184-191), the form being on the
\* screen outside a review; backToMenu then only returns to the menu
RoundRecorded ==
  /\ reviewingResult = None
  /\ \E choice \in FormChoices(session) :
       /\ submitResult(session, choice) # None
       /\ last' = ReviewCall("handleRoundRecorded", submitResult(session, choice)[1])
       /\ handleRoundRecorded(submitResult(session, choice)[1].prese,
                              submitResult(session, choice)[1].bestia)
  /\ UNCHANGED <<budget, hasSession, currentRoute, location, reviewingResult,
                 modal, inflight>>

\* the render that passes the app's value to game-actions (updated,
\* game-actions.ts 61-79)
RenderReview ==
  /\ reviewingResult # reviewingRoundResult
  /\ reviewingResult' = reviewingRoundResult
  /\ last' = ReviewCall("updated", None)
  /\ UNCHANGED <<session, stored, saves, now, nextId, budget, storage, other,
                 hasSession, currentRoute, location, reviewingRoundResult,
                 modal, inflight>>

\* confirmReview (game-actions.ts 232-249) and the handler of its event
ConfirmReview ==
  /\ saves <= budget
  /\ reviewingResult # None
  /\ \E adjustedAmounts \in Adjustments(reviewingResult[1].calculatedAmounts) :
       /\ last' = ReviewCall("handleRoundConfirmed",
                             [prese |-> reviewingResult[1].prese,
                              bestia |-> reviewingResult[1].bestia,
                              adjustedAmounts |-> adjustedAmounts])
       /\ handleRoundConfirmed(reviewingResult[1].prese, reviewingResult[1].bestia,
                               adjustedAmounts)
  /\ UNCHANGED <<budget, hasSession, currentRoute, location, reviewingResult,
                 modal, inflight>>

\* backToMenu during a review (game-actions.ts 158-169) and the handler of
\* review-cancelled
BackToMenu ==
  /\ reviewingResult # None
  /\ last' = ReviewCall("handleReviewCancelled", None)
  /\ handleReviewCancelled
  /\ UNCHANGED <<budget, hasSession, currentRoute, location, reviewingResult,
                 modal, inflight>>

ReviewNext ==
  \/ RecordDealerSelection
  \/ RecordGiroChiuso
  \/ RoundRecorded
  \/ RenderReview
  \/ ConfirmReview
  \/ BackToMenu

ReviewSpec == EnvInit /\ [][ReviewNext]_vars

RoundEnds(s) == Cardinality({i \in 1..Len(s.events) : s.events[i].type = "round_end"})

\* C37: a submitted round is not recorded until it is confirmed.  The
\* round-recorded handler changes nothing but reviewingRoundResult; the
\* number of round_end events grows only in the round-confirmed handler,
\* by one, while reviewingRoundResult is not null, and the handler clears
\* it; a confirmation that finds it null appends nothing; cancelling clears
\* it and appends nothing.
C37_RecordedOnlyWhenConfirmed ==
  /\ last.op = "handleRoundRecorded" =>
       /\ session = last.session
       /\ stored = last.stored
       /\ saves = last.saves
       /\ reviewingRoundResult # None
       /\ reviewingRoundResult[1].prese = last.detail.prese
       /\ reviewingRoundResult[1].bestia = last.detail.bestia
  /\ RoundEnds(session) # RoundEnds(last.session) =>
       /\ last.op = "handleRoundConfirmed"
       /\ last.reviewingRoundResult # None
       /\ reviewingRoundResult = None
       /\ RoundEnds(session) = RoundEnds(last.session) + 1
       /\ Len(session.events) = Len(last.session.events) + 1
  /\ (last.op = "handleRoundConfirmed" /\ last.reviewingRoundResult = None) =>
       /\ session = last.session
       /\ stored = last.stored
       /\ reviewingRoundResult = None
  /\ last.op = "handleReviewCancelled" =>
       /\ session = last.session
       /\ stored = last.stored
       /\ reviewingRoundResult = None

\* the confirm button was pressed a second time before the next render: the
\* first press recorded the round, the second found nothing under review
C37_Witness ==
  /\ last.op = "handleRoundConfirmed"
  /\ last.reviewingRoundResult = None
  /\ reviewingResult # None
  /\ RoundEnds(session) = 1
  /\ session.events[Len(session.events)].type = "round_end"
  /\ session = last.session

(***************************************************************************)
(* Routing (app.ts 451-508; part_001 110-166).  The hash is kept parsed:   *)
(* its first part and what follows it.  A hashchange event that waits is   *)
(* handled by handleRouteChange, which connectedCallback also calls once.  *)
(***************************************************************************)
RouteCall(op, hash) ==
  [op |-> op, hash |-> hash, session |-> session, saves |-> saves,
   stored |-> stored, currentRoute |-> currentRoute, hasSession |-> hasSession]

\* a game id no stored game has
UnknownGameId == 9

\* the hashes a link or the address bar can hold: none, #/games, #/game/new,
\* #/game/<stored id>, #/game/<unknown id>, #/game and #/about
Hashes ==
  {[route |-> "", param |-> "", id |-> 0], GamesHash, NewGameHash,
   GameHash(0), GameHash(UnknownGameId),
   [route |-> "game", param |-> "", id |-> 0],
   [route |-> "about", param |-> "", id |-> 0]}

\* window.location.hash.slice(1) || 'games', then the first part
RouteOf(hash) == IF hash.route = "" THEN "games" ELSE hash.route

\* window.location.hash = h: an event is queued when the hash changes
SetHash(h) == [hash |-> h, hashchange |-> (location.hashchange \/ h # location.hash)]

\* the event that waited has been delivered
Delivered == [location EXCEPT !.hashchange = FALSE]

\* a handler that shows the game page before looking the game up
handleRouteChangeUnchecked(hash) ==
  IF RouteOf(hash) = "games"
  THEN /\ currentRoute' = "games"
       /\ hasSession' = FALSE
       /\ location' = Delivered
       /\ UNCHANGED session
  ELSE IF RouteOf(hash) = "game" /\ hash.param = "new"
  THEN /\ currentRoute' = "game-new"
       /\ hasSession' = FALSE
       /\ location' = Delivered
       /\ UNCHANGED session
  ELSE IF RouteOf(hash) = "game" /\ hash.param = "id"
  THEN /\ currentRoute' = "game-play"
       /\ IF getGameById(hash.id) # None
          THEN /\ session' = getGameById(hash.id)[1]
               /\ hasSession' = TRUE
               /\ location' = Delivered
          ELSE /\ location' = [hash |-> GamesHash, hashchange |-> TRUE]
               /\ UNCHANGED <<session, hasSession>>
  ELSE /\ location' = Delivered
       /\ UNCHANGED <<session, hasSession, currentRoute>>

\* handleRouteChange (app.ts 451-485, part_001 110-144); a hash that is not
\* #/games is replaced by it in the last branch, which queues an event
handleRouteChange(hash) ==
  IF RouteOf(hash) = "games"
  THEN /\ currentRoute' = "games"
       /\ hasSession' = FALSE
       /\ location' = Delivered
       /\ UNCHANGED session
  ELSE IF RouteOf(hash) = "game" /\ hash.param = "new"
  THEN /\ currentRoute' = "game-new"
       /\ hasSession' = FALSE
       /\ location' = Delivered
       /\ UNCHANGED session
  ELSE IF RouteOf(hash) = "game" /\ hash.param = "id"
  THEN IF getGameById(hash.id) # None
       THEN /\ session' = getGameById(hash.id)[1]
            /\ hasSession' = TRUE
            /\ currentRoute' = "game-play"
            /\ location' = Delivered
       ELSE /\ location' = [hash |-> GamesHash, hashchange |-> TRUE]
            /\ UNCHANGED <<session, hasSession, currentRoute>>
  ELSE /\ location' = Delivered
       /\ UNCHANGED <<session, hasSession, currentRoute>>

\* the hashchange listener (app.ts 390-394), and the call connectedCallback
\* makes when the page is opened
HandleRouteChange ==
  /\ location.hashchange
  /\ last' = RouteCall("handleRouteChange", location.hash)
  /\ handleRouteChange(location.hash)
  /\ UNCHANGED <<stored, saves, now, nextId, budget, storage, other,
                 reviewingRoundResult, reviewingResult, modal, inflight>>

\* a link, the address bar or a button of the app sets the hash (app.ts
\* 487-499, 619, 634)
Navigate ==
  /\ \E h \in Hashes :
       /\ h # location.hash
       /\ location' = SetHash(h)
       /\ last' = RouteCall("navigate", h)
  /\ UNCHANGED <<session, stored, saves, now, nextId, budget, storage, other,
                 hasSession, currentRoute, reviewingRoundResult, reviewingResult,
                 modal, inflight>>

\* handleSessionCreate (app.ts 501-508): the setup page creates and stores
\* a game and asks for its page; this.session is not assigned here
HandleSessionCreate ==
  /\ saves <= budget
  /\ currentRoute = "game-new"
  /\ stored' = IF storage = "ok"
               THEN Some(JsonSession(NewSession(TwoPlayerNames, DefaultPiatto)))
               ELSE stored
  /\ saves' = saves + 1
  /\ location' = SetHash(GameHash(NewSession(TwoPlayerNames, DefaultPiatto).id))
  /\ last' = RouteCall("handleSessionCreate", location.hash)
  /\ UNCHANGED <<session, now, nextId, budget, storage, other, hasSession,
                 currentRoute, reviewingRoundResult, reviewingResult, modal, inflight>>

\* the record handlers, each under "if (this.session)" (app.ts 518-540)
GameHandlers ==
  /\ hasSession
  /\ (RecordDealerSelection \/ RecordGiroChiuso)

\* the page as it is opened: no session, the games list, any hash
RouteInit ==
  /\ session = NewSession(TwoPlayerNames, DefaultPiatto)
  /\ stored = Some(JsonSession(NewSession(TwoPlayerNames, DefaultPiatto)))
  /\ saves = 1
  /\ now = 1
  /\ nextId = 1
  /\ budget = MaxCalls
  /\ storage = "ok"
  /\ other = None
  /\ hasSession = FALSE
  /\ currentRoute = "games"
  /\ location \in {[hash |-> h, hashchange |-> TRUE] : h \in Hashes}
  /\ reviewingRoundResult = None
  /\ reviewingResult = None
  /\ modal = ClosedModal
  /\ inflight = <<>>
  /\ last = RouteCall("connectedCallback", GamesHash)

RouteNext ==
  \/ HandleRouteChange
  \/ Navigate
  \/ HandleSessionCreate
  \/ GameHandlers
  \/ StorageBreaks

RouteSpec == RouteInit /\ [][RouteNext]_vars

\* C38: currentRoute = 'game-play' implies that the session is not null,
\* the routes 'games' and 'game-new' have a null session, and a route
\* change to a game id that is not stored leaves the route as it was and
\* sets the hash to the games list.
C38_GamePlayHasSession ==
  /\ currentRoute = "game-play" => hasSession
  /\ currentRoute \in {"games", "game-new"} => ~hasSession
  /\ (/\ last.op = "handleRouteChange"
      /\ RouteOf(last.hash) = "game"
      /\ last.hash.param = "id"
      /\ getGameById(last.hash.id) = None) =>
       /\ currentRoute = last.currentRoute
       /\ hasSession = last.hasSession
       /\ session = last.session
       /\ location = [hash |-> GamesHash, hashchange |-> TRUE]

\* a link to a game that is not stored was followed from the page of a
\* game: the game stays on the screen and the hash is #/games
C38_Witness ==
  /\ last.op = "handleRouteChange"
  /\ last.hash = GameHash(UnknownGameId)
  /\ last.currentRoute = "game-play"
  /\ currentRoute = "game-play"
  /\ hasSession
  /\ Len(session.events) > 0
  /\ location = [hash |-> GamesHash, hashchange |-> TRUE]

(***************************************************************************)
(* The share modal (share-game-modal.ts 334-486; part_001 365-374).  A     *)
(* text is kept as a record; padded says that white space surrounds it.    *)
(* inflight holds the promises the component awaits, in the order they     *)
(* were made; each settles whenever the network or the QR library answers. *)
(***************************************************************************)
MaxOpenings == 2
MaxInflight == 3

ModalCall(op, request, outcome) ==
  [op |-> op, request |-> request, outcome |-> outcome, session |-> session,
   saves |-> saves, modal |-> modal, inflight |-> inflight]

\* a non-empty string is truthy, white space included
Truthy(text) == text # EmptyText

\* String.prototype.trim
Trim(text) == IF "padded" \in DOMAIN text THEN [text EXCEPT !.padded = FALSE] ELSE text

\* shortUrl.includes('error')
IncludesError(text) == "body" \in DOMAIN text /\ text.body = "error"

\* getShareUrl (sharing.ts 84-89)
getShareUrl(s) == [base |-> "origin", share |-> encodeGameForSharing(s, 21)]

\* what fetch and response.text() can yield for a request: a rejection, a
\* short link with a line end, nothing, white space, an error page
Outcomes(url) ==
  {[throws |-> TRUE, text |-> EmptyText],
   [throws |-> FALSE, text |-> [body |-> "tinyurl", of |-> url, padded |-> TRUE]],
   [throws |-> FALSE, text |-> EmptyText],
   [throws |-> FALSE, text |-> [body |-> "", padded |-> TRUE]],
   [throws |-> FALSE, text |-> [body |-> "error", padded |-> FALSE]]}

Fetch(url, opening) == [kind |-> "fetch", url |-> url, opening |-> opening]
QrJob(url, opening) == [kind |-> "qr", url |-> url, opening |-> opening]

Without(seq, i) == [j \in 1..(Len(seq) - 1) |-> IF j < i THEN seq[j] ELSE seq[j + 1]]

\* a short link taken from whatever the service answered
shortUrlAfterUnchecked(outcome, shareUrl) ==
  IF outcome.throws THEN shareUrl ELSE Trim(outcome.text)

\* the value generateShortUrl gives shortUrl when its fetch settles
\* (share-game-modal.ts 390-400)
shortUrlAfter(outcome, shareUrl) ==
  IF outcome.throws THEN shareUrl
  ELSE IF Truthy(outcome.text) /\ ~IncludesError(outcome.text) THEN Trim(outcome.text)
  ELSE shareUrl

\* openShareModal (part_001 365-374) and openModal (share-game-modal.ts
\* 475-482); the app's render passes the new shareUrl before the modal's
OpenShareModal ==
  /\ hasSession
  /\ ~modal.showModal
  /\ modal.opening < MaxOpenings
  /\ modal' = [modal EXCEPT !.shareUrl = getShareUrl(session),
                            !.showModal = TRUE,
                            !.qrCodeDataUrl = EmptyText,
                            !.qrError = FALSE,
                            !.shortUrl = EmptyText,
                            !.updatePending = TRUE,
                            !.opening = modal.opening + 1]
  /\ last' = ModalCall("openModal", None, None)
  /\ UNCHANGED <<session, stored, saves, now, nextId, budget, storage, other,
                 hasSession, currentRoute, location, reviewingRoundResult,
                 reviewingResult, inflight>>

\* closeModal (share-game-modal.ts 484-486)
CloseModal ==
  /\ modal.showModal
  /\ modal' = [modal EXCEPT !.showModal = FALSE, !.updatePending = TRUE]
  /\ last' = ModalCall("closeModal", None, None)
  /\ UNCHANGED <<session, stored, saves, now, nextId, budget, storage, other,
                 hasSession, currentRoute, location, reviewingRoundResult,
                 reviewingResult, inflight>>

\* updated (share-game-modal.ts 370-377) after a render: calculateDataSizes,
\* then generateShortUrl up to its await (379-388) or, when it returns at
\* once, generateQRCode up to its await (436-440).  A state that changes
\* asks for another render.
Updated ==
  /\ modal.updatePending
  /\ IF /\ modal.showModal
        /\ ~Truthy(modal.qrCodeDataUrl)
        /\ ~modal.qrError
        /\ Truthy(modal.shareUrl)
     THEN /\ Len(inflight) < MaxInflight
          /\ IF Truthy(modal.shortUrl)
             THEN /\ modal' = [modal EXCEPT
                                 !.sizesOf = modal.shareUrl,
                                 !.updatePending = (modal.sizesOf # modal.shareUrl)]
                  /\ inflight' = Append(inflight, QrJob(modal.shortUrl, modal.opening))
             ELSE /\ modal' = [modal EXCEPT
                                 !.sizesOf = modal.shareUrl,
                                 !.isGeneratingShortUrl = TRUE,
                                 !.updatePending = (modal.sizesOf # modal.shareUrl
                                                    \/ ~modal.isGeneratingShortUrl)]
                  /\ inflight' = Append(inflight, Fetch(modal.shareUrl, modal.opening))
     ELSE /\ modal' = [modal EXCEPT !.updatePending = FALSE]
          /\ UNCHANGED inflight
  /\ last' = ModalCall("updated", None, None)
  /\ UNCHANGED <<session, stored, saves, now, nextId, budget, storage, other,
                 hasSession, currentRoute, location, reviewingRoundResult,
                 reviewingResult>>

\* the rest of generateShortUrl (share-game-modal.ts 390-402) when its fetch
\* settles, and generateQRCode which the caller chains to it (373-375)
FetchSettles ==
  /\ \E i \in 1..Len(inflight) :
       /\ inflight[i].kind = "fetch"
       /\ \E outcome \in Outcomes(inflight[i].url) :
            /\ modal' = [modal EXCEPT
                           !.shortUrl = shortUrlAfter(outcome, modal.shareUrl),
                           !.isGeneratingShortUrl = FALSE,
                           !.updatePending =
                              \/ modal.updatePending
                              \/ modal.isGeneratingShortUrl
                              \/ shortUrlAfter(outcome, modal.shareUrl) # modal.shortUrl]
            /\ inflight' = Append(Without(inflight, i),
                                  QrJob(IF Truthy(shortUrlAfter(outcome, modal.shareUrl))
                                        THEN shortUrlAfter(outcome, modal.shareUrl)
                                        ELSE modal.shareUrl,
                                        modal.opening))
            /\ last' = ModalCall("generateShortUrl", inflight[i], outcome)
  /\ UNCHANGED <<session, stored, saves, now, nextId, budget, storage, other,
                 hasSession, currentRoute, location, reviewingRoundResult,
                 reviewingResult>>

\* the rest of generateQRCode (share-game-modal.ts 440-455): the image, or
\* the error of a text too long for a QR code
QrSettles ==
  /\ \E i \in 1..Len(inflight), drawn \in BOOLEAN :
       /\ inflight[i].kind = "qr"
       /\ modal' = [modal EXCEPT
                      !.qrCodeDataUrl = IF drawn THEN inflight[i].url ELSE EmptyText,
                      !.qrError = ~drawn,
                      !.updatePending =
                         \/ modal.updatePending
                         \/ modal.qrError # ~drawn
                         \/ modal.qrCodeDataUrl #
                              (IF drawn THEN inflight[i].url ELSE EmptyText)]
       /\ inflight' = Without(inflight, i)
       /\ last' = ModalCall("generateQRCode", inflight[i], drawn)
  /\ UNCHANGED <<session, stored, saves, now, nextId, budget, storage, other,
                 hasSession, currentRoute, location, reviewingRoundResult,
                 reviewingResult>>

ModalNext ==
  \/ RecordGiroChiuso
  \/ OpenShareModal
  \/ CloseModal
  \/ Updated
  \/ FetchSettles
  \/ QrSettles

ModalSpec == EnvInit /\ [][ModalNext]_vars

\* the outcome is one of the failures the claim names
Failed(outcome) ==
  outcome.throws \/ outcome.text = EmptyText \/ IncludesError(outcome.text)

\* C39: when generateShortUrl settles, isGeneratingShortUrl is false and
\* shortUrl is the trimmed answer of the service or exactly shareUrl; it is
\* shareUrl when the request threw or the answer was empty or contained
\* 'error'.
C39_ShortUrlFallsBack ==
  last.op = "generateShortUrl" =>
    /\ ~modal.isGeneratingShortUrl
    /\ \/ modal.shortUrl = modal.shareUrl
       \/ ~last.outcome.throws /\ modal.shortUrl = Trim(last.outcome.text)
    /\ Failed(last.outcome) => modal.shortUrl = modal.shareUrl
    /\ modal.shareUrl = last.modal.shareUrl

\* the service answered with an error page while the modal was open: the
\* full link is shown
C39_Witness ==
  /\ last.op = "generateShortUrl"
  /\ ~last.outcome.throws
  /\ IncludesError(last.outcome.text)
  /\ modal.showModal
  /\ last.modal.isGeneratingShortUrl
  /\ modal.shortUrl = getShareUrl(session)
  /\ ~modal.isGeneratingShortUrl

FetchesOf(opening) ==
  {i \in 1..Len(inflight) : inflight[i].kind = "fetch" /\ inflight[i].opening = opening}

\* C40: for one opening of the modal at most one shortening request is in
\* flight, and an answer to a request of an earlier opening does not set
\* shortUrl for the opening on the screen.
C40_OneRequestPerOpening ==
  /\ \A opening \in 1..MaxOpenings : Cardinality(FetchesOf(opening)) <= 1
  /\ (last.op = "generateShortUrl" /\ last.request.opening # modal.opening) =>
       modal.shortUrl = last.modal.shortUrl

\* C40, first part alone
C40_NoSecondRequest ==
  \A opening \in 1..MaxOpenings : Cardinality(FetchesOf(opening)) <= 1

\* C40, second part alone
C40_NoStaleAnswer ==
  (last.op = "generateShortUrl" /\ last.request.opening # modal.opening) =>
    modal.shortUrl = last.modal.shortUrl

====
